---- MODULE Spec2Model ----
(***************************************************************************)
(* A model of GraphApiHelper (src/src/mcp/src/graph-api-helper.ts): the    *)
(* dispatch of one logical request to the Microsoft Graph SDK client or to *)
(* the Azure Resource Management REST API, with the page-following         *)
(* aggregation of callAzureApi, the error normalisation of both methods    *)
(* and the hasMorePages predicate.                                         *)
(*                                                                         *)
(* An async method is a sequence of steps separated by its awaits.  The    *)
(* variable call holds the frame of the invocation in flight (its          *)
(* parameters, its locals, the await it is suspended on and, at the end,   *)
(* the outcome of the promise it returned).  Each action resumes the frame *)
(* with what the awaited collaborator produced (a value or a thrown        *)
(* value), drawn from a small set.                                         *)
(***************************************************************************)
EXTENDS Integers, Sequences, FiniteSets, TLC

VARIABLES helper, call, probe, calls, inputs,
          env, authManager, graphClient, apiHelper, main, tools, now, injected,
          managers

\* Invocations that run concurrently on one helper (calls), each with the
\* outcomes its awaits have produced so far (inputs).
concVars == <<calls, inputs>>

\* The server process (main entry and tool handlers):
\*   env           process.env, as read at startup and by the handlers
\*   authManager, graphClient, apiHelper
\*                 the three module-level slots of the entry point
\*   main          where main() is: "start", suspended on "initialize" or
\*                 on "connect", "serving" once the transport is
\*                 connected, or "failed" (the process has exited)
\*   tools         the tool requests being handled, each with the frame
\*                 of its handler, and the requests settled since the
\*                 latest request arrived, each with its result
\*   now           the wall clock
\*   injected      the arguments of the latest set-access-token that
\*                 updated the token
\*   managers      the AuthManager instances constructed so far
serverVars ==
  <<env, authManager, graphClient, apiHelper, main, tools, now, injected, managers>>

vars == <<helper, call, probe, concVars, serverVars>>

----------------------------------------------------------------------------
(* Bounds of the model.                                                    *)

\* Page requests one fetchAll aggregation may make before the backend is
\* made to end the chain (Spec only; SpecLive leaves the backend free).
MaxPages == 3

\* Tool requests the server may be handling at once.
MaxHandlers == 2

Handlers == 1..MaxHandlers

----------------------------------------------------------------------------
(* JavaScript values.  A string is the sequence of the pieces it was       *)
(* concatenated from (<<>> is the empty string); an object is a function   *)
(* from property names to values.                                          *)

Undefined == [t |-> "undefined"]

Null == [t |-> "null"]

Str(s) == [t |-> "string", s |-> s]

Num(n) == [t |-> "number", n |-> n]

Bool(b) == [t |-> "boolean", b |-> b]

Arr(items) == [t |-> "array", items |-> items]

Obj(props) == [t |-> "object", p |-> props]

EmptyObj == Obj(<<>>)

\* ToBoolean: what `if (v)`, `!v`, `v || w` and `v ? a : b` test.
Truthy(v) ==
  CASE v.t = "undefined" -> FALSE
    [] v.t = "null" -> FALSE
    [] v.t = "string" -> Len(v.s) > 0
    [] v.t = "number" -> v.n # 0
    [] v.t = "boolean" -> v.b
    [] OTHER -> TRUE

\* Reading property k of v throws a TypeError exactly when v is null or
\* undefined.
Nullish(v) == v.t \in {"undefined", "null"}

\* v[k] for a v that is not nullish: undefined when v has no such property.
Get(v, k) ==
  IF v.t = "object" /\ k \in DOMAIN v.p THEN v.p[k] ELSE Undefined

IsArray(v) == v.t = "array"

\* JSON.stringify(v) as one piece of text.
Stringify(v) == <<ToString(v)>>

\* An Error instance: message is a string, statusCode a number (0: the
\* property is absent).
ErrorOf(message, statusCode) ==
  [t |-> "error", message |-> message, statusCode |-> statusCode]

\* The TypeError the engine raises for a property read on null/undefined.
TypeErrorOf(v, k) ==
  ErrorOf(<<"Cannot read properties of ", v.t, " (reading '", k, "')">>, 0)

RECURSIVE StringOf(_)
\* String(v) for a v that is no Error: a string is itself, a number its
\* decimal text, a boolean "true" or "false", an array its items joined
\* by "," (null and undefined items as the empty text), a plain object
\* "[object Object]".
StringOf(v) ==
  CASE v.t = "string" -> v.s
    [] v.t = "number" -> <<ToString(v.n)>>
    [] v.t = "boolean" -> IF v.b THEN <<"true">> ELSE <<"false">>
    [] v.t = "undefined" -> <<"undefined">>
    [] v.t = "null" -> <<"null">>
    [] v.t = "array" ->
         IF v.items = <<>> THEN <<>>
         ELSE LET first == IF Nullish(Head(v.items)) THEN <<>>
                           ELSE StringOf(Head(v.items))
              IN  IF Len(v.items) = 1 THEN first
                  ELSE first \o <<",">> \o StringOf(Arr(Tail(v.items)))
    [] v.t = "object" -> <<"[object Object]">>

\* error instanceof Error ? error.message : String(error)
MessageOf(e) == IF e.t = "error" THEN e.message ELSE StringOf(e)

\* error.statusCode || undefined, with 0 for undefined.
StatusCodeOf(e) ==
  CASE e.t = "error" -> e.statusCode
    [] e.t = "object" -> IF "statusCode" \in DOMAIN e.p /\ Truthy(e.p["statusCode"])
                         THEN e.p["statusCode"].n ELSE 0
    [] OTHER -> 0

----------------------------------------------------------------------------
(* ApiResponse and the outcome of the promise a method returns.            *)

\* { data: responseData }
Success(data) == [data |-> data, error |-> Undefined, statusCode |-> 0]

\* { data: null, error: ..., statusCode: ... }
Failure(message, statusCode) ==
  [data |-> Null, error |-> Str(message), statusCode |-> statusCode]

Fulfilled(response) == [state |-> "fulfilled", value |-> response, reason |-> Undefined]

Rejected(reason) == [state |-> "rejected", value |-> Success(Undefined), reason |-> reason]

Pending == [state |-> "pending", value |-> Success(Undefined), reason |-> Undefined]

----------------------------------------------------------------------------
(* What the collaborators may produce.  An awaited call either returns a   *)
(* value or throws one.                                                    *)

Returns(v) == [k |-> "return", v |-> v]

Throws(e) == [k |-> "throw", v |-> e]

\* Values a collaborator may throw (reject with): Error instances with and
\* without a statusCode, an Error with an empty message, a bare string, a
\* bare number, plain objects without and with a message property, and
\* the bare rejections null and undefined.
Thrown ==
  { ErrorOf(<<"network down">>, 0),
    ErrorOf(<<"Forbidden">>, 403),
    ErrorOf(<<>>, 0),
    Str(<<"timeout">>),
    Num(429),
    Obj([statusCode |-> Num(429)]),
    Obj([message |-> Str(<<"boom">>), statusCode |-> Num(503)]),
    Null,
    Undefined }

Tokens == {"t1", "t2"}

\* What azureCredential.getToken may resolve with: an AccessToken, an
\* AccessToken whose token is empty, or null.
TokenResponses ==
  { Obj([token |-> Str(<<tk>>)]) : tk \in Tokens }
    \cup { Obj([token |-> Str(<<>>)]), Null }

TokenOutcomes ==
  { Returns(r) : r \in TokenResponses } \cup { Throws(e) : e \in Thrown }

Methods == {"get", "post", "put", "patch", "delete"}

\* A property list: no property when the value is undefined.
Prop(k, v) == IF v.t = "undefined" THEN <<>> ELSE (k :> v)

Items == [a |-> Str(<<"a">>), b |-> Str(<<"b">>), c |-> Str(<<"c">>)]

\* The `value` property of a payload: absent, not an array, or an array
\* (the empty one included).
ValueFields ==
  { Undefined,
    Str(<<"not-an-array">>),
    Arr(<<>>),
    Arr(<<Items.a>>),
    Arr(<<Items.b, Items.c>>) }

----------------------------------------------------------------------------
(* Azure Resource Management: requests and responses.                      *)

AzureBaseUrl == <<"https://management.azure.com">>

\* The logical requests callAzureApi is given: every method, with and
\* without fetchAll, bare (path and apiVersion only) or with a
\* subscription, a query parameter and a body.
AzureParams ==
  { [path |-> <<"/resourcegroups">>, method |-> m, apiVersion |-> <<"2021-04-01">>,
     subscriptionId |-> IF full THEN <<"sub1">> ELSE <<>>,
     queryParams |-> IF full THEN << << <<"$filter">>, <<"name eq 'x'">> >> >> ELSE <<>>,
     body |-> IF full THEN Obj([location |-> Str(<<"westeurope">>)]) ELSE Undefined,
     fetchAll |-> fa]
    : m \in Methods, fa \in BOOLEAN, full \in BOOLEAN }

\* The characters the application/x-www-form-urlencoded serialiser leaves
\* alone: ASCII letters and digits, "*", "-", "." and "_".
Unreserved ==
  "abcdefghijklmnopqrstuvwxyzABCDEFGHIJKLMNOPQRSTUVWXYZ0123456789*-._"

\* The character at position i of a string.
Char(s, i) == SubSeq(s, i, i)

IsIn(ch, alphabet) == \E i \in 1..Len(alphabet) : Char(alphabet, i) = ch

\* The position of ch in alphabet.
IndexIn(ch, alphabet) == CHOOSE i \in 1..Len(alphabet) : Char(alphabet, i) = ch

IsUnreserved(ch) == IsIn(ch, Unreserved)

\* Characters without a printable form, by code point.  U+000B:
VerticalTab == ""

\* U+000C.
FormFeed == "\f"

\* U+007F.
Delete == ""

\* U+00A0.
NoBreakSpace == " "

\* U+1680.
OghamSpaceMark == " "

\* U+FEFF.
ByteOrderMark == "﻿"

\* The control characters U+0001 to U+001F in the order of their codes:
\* the one at position n has code n.
ControlCharacters ==
  "" \o "\t\n" \o VerticalTab \o FormFeed \o "\r"
    \o ""

\* The white space and line terminators of ECMAScript, as far as a string
\* of this notation can hold them (it cannot hold U+2000 to U+200A,
\* U+2028, U+2029, U+202F, U+205F and U+3000).
WhiteSpace ==
  " \t\n\r" \o VerticalTab \o FormFeed \o NoBreakSpace \o OghamSpaceMark \o ByteOrderMark

HexDigits == "0123456789ABCDEF"

\* A byte as a percent sign and two hexadecimal digits in upper case.
PercentByte(n) ==
  "%" \o Char(HexDigits, (n \div 16) + 1) \o Char(HexDigits, (n % 16) + 1)

\* The serialisation of one character.  The space becomes "+"; every other
\* character outside Unreserved is percent-encoded as the bytes of its
\* UTF-8 form in upper case hexadecimal.  Defined on ASCII from U+0001 on
\* (the grave accent, which a string of this notation cannot hold,
\* excepted) and on the white space beyond ASCII.
EncodeChar(ch) ==
  IF IsUnreserved(ch) THEN ch
  ELSE IF IsIn(ch, ControlCharacters) THEN PercentByte(IndexIn(ch, ControlCharacters))
  ELSE CASE ch = " " -> "+"
         [] ch = "!" -> "%21"
         [] ch = "\"" -> "%22"
         [] ch = "#" -> "%23"
         [] ch = "$" -> "%24"
         [] ch = "%" -> "%25"
         [] ch = "&" -> "%26"
         [] ch = "'" -> "%27"
         [] ch = "(" -> "%28"
         [] ch = ")" -> "%29"
         [] ch = "+" -> "%2B"
         [] ch = "," -> "%2C"
         [] ch = "/" -> "%2F"
         [] ch = ":" -> "%3A"
         [] ch = ";" -> "%3B"
         [] ch = "<" -> "%3C"
         [] ch = "=" -> "%3D"
         [] ch = ">" -> "%3E"
         [] ch = "?" -> "%3F"
         [] ch = "@" -> "%40"
         [] ch = "[" -> "%5B"
         [] ch = "\\" -> "%5C"
         [] ch = "]" -> "%5D"
         [] ch = "^" -> "%5E"
         [] ch = "{" -> "%7B"
         [] ch = "|" -> "%7C"
         [] ch = "}" -> "%7D"
         [] ch = "~" -> "%7E"
         [] ch = Delete -> "%7F"
         [] ch = NoBreakSpace -> "%C2%A0"
         [] ch = OghamSpaceMark -> "%E1%9A%80"
         [] ch = ByteOrderMark -> "%EF%BB%BF"

RECURSIVE EncodeFrom(_, _)
\* The serialisation of the characters of s from position i on.
EncodeFrom(s, i) ==
  IF i > Len(s) THEN "" ELSE EncodeChar(Char(s, i)) \o EncodeFrom(s, i + 1)

\* URLSearchParams.prototype.toString() for one name or value: every
\* piece of the text is serialised character by character.
FormEncode(text) == [i \in 1..Len(text) |-> EncodeFrom(text[i], 1)]

RECURSIVE AppendParams(_, _)
\* urlParams.append(key, value) for every entry (a name and a value, each
\* the sequence of its pieces), as toString() renders them.
AppendParams(text, entries) ==
  IF entries = <<>> THEN text
  ELSE AppendParams(text \o <<"&">> \o FormEncode(Head(entries)[1])
                         \o <<"=">> \o FormEncode(Head(entries)[2]),
                    Tail(entries))

\* BuildAzureUrl without the api-version entry of line 205.
BuildAzureUrlNoVersion(params) ==
  AzureBaseUrl
    \o (IF Len(params.subscriptionId) > 0
        THEN <<"/subscriptions/">> \o params.subscriptionId ELSE <<>>)
    \o params.path
    \o <<"?">>
    \o (LET query == AppendParams(<<>>, params.queryParams)
        IN  IF query = <<>> THEN <<>> ELSE Tail(query))

\* Lines 199-212: base, optional subscription segment, path, and a query
\* string that starts with api-version.
BuildAzureUrl(params) ==
  AzureBaseUrl
    \o (IF Len(params.subscriptionId) > 0
        THEN <<"/subscriptions/">> \o params.subscriptionId ELSE <<>>)
    \o params.path
    \o <<"?">>
    \o AppendParams(<<"api-version", "=">> \o FormEncode(params.apiVersion),
                    params.queryParams)

\* URLs a backend page may name as its successor: a continuation URL of
\* the backend's own making, and the URL the call started from.
NextPageUrl == AzureBaseUrl \o <<"/resourcegroups", "?", "$skiptoken", "=", "abc">>

NextLinks(url) == {Str(NextPageUrl), Str(url)}

\* JSON objects the resource-management backend may send.
AzurePayloads(url) ==
  { Obj(Prop("value", v) @@ Prop("nextLink", n))
    : v \in ValueFields, n \in {Undefined} \cup NextLinks(url) }

\* A response body: its text, whether the text is valid JSON and, if so,
\* the value it denotes.
EmptyBody == [text |-> <<>>, valid |-> FALSE, json |-> Undefined]

InvalidBody == [text |-> <<"<html>Bad Gateway</html>">>, valid |-> FALSE, json |-> Undefined]

JsonBody(v) == [text |-> Stringify(v), valid |-> TRUE, json |-> v]

\* Bodies of a 200 response: none, text that is not JSON, the JSON
\* literal null, or a JSON object.
OkBodies(url) ==
  {EmptyBody, InvalidBody, JsonBody(Null)}
    \cup { JsonBody(p) : p \in AzurePayloads(url) }

\* Bodies of an error response: none, text that is not JSON, an error
\* object, or an object that carries items and a successor all the same.
ErrorBodies(url) ==
  { EmptyBody, InvalidBody,
    JsonBody(Obj([error |-> Str(<<"ResourceNotFound">>)])),
    JsonBody(Obj([value |-> Arr(<<Items.a>>), nextLink |-> Str(NextPageUrl)])) }

ErrorStatuses == {404, 500}

\* Response.ok of the fetch standard.
Ok(status) == status \in 200..299

AzureResponses(url) ==
  { [status |-> 200, body |-> b] : b \in OkBodies(url) }
    \cup { [status |-> 204, body |-> EmptyBody] }
    \cup { [status |-> st, body |-> b] : st \in ErrorStatuses, b \in ErrorBodies(url) }

\* The Response fetch resolves with: its status is known, its body is yet
\* to be read.
ResponseOf(status) == [status |-> status]

\* What fetch may produce for a request to url.
FetchOutcomes(url) ==
  { Returns(ResponseOf(r.status)) : r \in AzureResponses(url) }
    \cup { Throws(e) : e \in Thrown }

\* Whether the aggregation goes on after this response.
Continues(resp) ==
  /\ Ok(resp.status)
  /\ resp.body.valid
  /\ ~Nullish(resp.body.json)
  /\ Truthy(Get(resp.body.json, "nextLink"))

----------------------------------------------------------------------------
(* The frame of one invocation.                                            *)
(*   api, params   the method invoked and its argument                     *)
(*   pc            the await the frame is suspended on, "idle" before the  *)
(*                 call and "done" once the promise is settled             *)
(*   url, token, allValues, currentUrl   locals of callAzureApi            *)
(*   status        the status of the response fetch resolved with          *)
(*                 (pageResponse, apiResponse), 0 before any               *)
(*   outcome       the promise returned to the caller                      *)
(* and, observed at the boundary with the collaborators:                   *)
(*   nToken, nHttp the token acquisitions and HTTP requests issued so far  *)
(*   lastToken     the token the latest acquisition returned               *)
(*   lastRequest   the latest HTTP request issued                          *)
(*   pages         the HTTP responses received, in order, each with the    *)
(*                 payload the method made of its body                     *)

NoRequest ==
  [url |-> <<>>, method |-> "", token |-> <<>>, body |-> Undefined,
   version |-> "", query |-> <<>>, consistencyLevel |-> <<>>]

IdleFrame ==
  [api |-> "none", params |-> <<>>, pc |-> "idle",
   url |-> <<>>, token |-> <<>>, allValues |-> <<>>, currentUrl |-> <<>>,
   status |-> 0,
   outcome |-> Pending,
   nToken |-> 0, nHttp |-> 0, lastToken |-> <<>>, lastRequest |-> NoRequest,
   pages |-> <<>>]

\* Counters and the page log stop growing past what MaxPages page requests
\* can produce; Spec never gets there.
Bump(n) == IF n <= MaxPages THEN n + 1 ELSE n

Log(seq, x) == IF Len(seq) < MaxPages THEN Append(seq, x) ELSE seq

\* return <response>
Return(c, response) == [c EXCEPT !.pc = "done", !.outcome = Fulfilled(response)]

\* An exception escapes the method: the promise rejects.
Reject(c, reason) == [c EXCEPT !.pc = "done", !.outcome = Rejected(reason)]

----------------------------------------------------------------------------
(* callAzureApi, lines 172-301.                                            *)

\* Lines 292-300, the catch block.  Reading error.statusCode of a thrown
\* null or undefined raises a TypeError inside the handler.
AzureCatch(c, e) ==
  IF Nullish(e)
  THEN Reject(c, TypeErrorOf(e, "statusCode"))
  ELSE Return(c, Failure(MessageOf(e), StatusCodeOf(e)))

\* await azureCredential.getToken(...), lines 194 and 238.
AwaitToken(c, at) == [c EXCEPT !.pc = at, !.nToken = Bump(@)]

\* await fetch(url, options), lines 245 and 274.
AwaitFetch(c, at, request) ==
  [c EXCEPT !.pc = at, !.nHttp = Bump(@), !.lastRequest = request]

\* await response.text(), lines 246 and 275: the frame holds the response
\* fetch resolved with while its body is read.
AwaitText(c, at, response) == [c EXCEPT !.pc = at, !.status = response.status]

\* NoToken that tests the response only, not the token in it.
NoTokenResponseOnly(tokenResponse) == ~Truthy(tokenResponse)

\* !tokenResponse || !tokenResponse.token
NoToken(tokenResponse) ==
  \/ ~Truthy(tokenResponse)
  \/ ~Truthy(Get(tokenResponse, "token"))

\* AzureEnter without the guard of line 186: getAzureCredential is read
\* off a null authManager.
AzureEnterUnguarded(h, params) ==
  LET c == [IdleFrame EXCEPT !.api = "azure", !.params = params]
  IN  IF ~h.authManager
      THEN AzureCatch(c, TypeErrorOf(Null, "getAzureCredential"))
      ELSE AwaitToken(c, "az:getToken")

\* Lines 185-194: the method up to its first await.
AzureEnter(h, params) ==
  LET c == [IdleFrame EXCEPT !.api = "azure", !.params = params]
  IN  IF ~h.authManager
      THEN AzureCatch(c, ErrorOf(<<"Auth manager not initialized">>, 0))
      ELSE AwaitToken(c, "az:getToken")

\* Lines 219-225: the options of the single round trip.
AzureRequestOptions(params, url, token) ==
  [NoRequest EXCEPT
     !.url = url,
     !.method = CASE params.method = "get" -> "GET"
                  [] params.method = "post" -> "POST"
                  [] params.method = "put" -> "PUT"
                  [] params.method = "patch" -> "PATCH"
                  [] OTHER -> "DELETE",
     !.token = token,
     !.body = IF params.method \in {"post", "put", "patch"}
              THEN (IF Truthy(params.body) THEN params.body ELSE EmptyObj)
              ELSE Undefined]

\* AzureOnToken that enters the aggregation loop on fetchAll alone,
\* whatever the method.
AzureOnTokenAnyMethod(c, outcome) ==
  IF outcome.k = "throw" THEN AzureCatch(c, outcome.v)
  ELSE IF NoToken(outcome.v)
  THEN AzureCatch(c, ErrorOf(<<"Failed to acquire Azure access token">>, 0))
  ELSE
    LET url == BuildAzureUrl(c.params)
        token == Get(outcome.v, "token").s
        d == [c EXCEPT !.url = url, !.token = token, !.lastToken = token]
    IN  IF c.params.fetchAll
        THEN AwaitToken([d EXCEPT !.allValues = <<>>, !.currentUrl = url],
                        "az:pageToken")
        ELSE AwaitFetch(d, "az:fetch", AzureRequestOptions(c.params, url, token))

\* Lines 194-245/274: resumed with the first token; the URL is built and
\* either the aggregation loop is entered or the single request is sent.
AzureOnToken(c, outcome) ==
  IF outcome.k = "throw" THEN AzureCatch(c, outcome.v)
  ELSE IF NoToken(outcome.v)
  THEN AzureCatch(c, ErrorOf(<<"Failed to acquire Azure access token">>, 0))
  ELSE
    LET url == BuildAzureUrl(c.params)
        token == Get(outcome.v, "token").s
        d == [c EXCEPT !.url = url, !.token = token, !.lastToken = token]
    IN  IF c.params.fetchAll /\ c.params.method = "get"
        THEN AwaitToken([d EXCEPT !.allValues = <<>>, !.currentUrl = url],
                        "az:pageToken")
        ELSE AwaitFetch(d, "az:fetch", AzureRequestOptions(c.params, url, token))

\* AzureOnPageToken that sends the page request with the token acquired
\* at call start (line 197) instead of the page's own.
AzureOnPageTokenReusesFirst(c, outcome) ==
  IF outcome.k = "throw" THEN AzureCatch(c, outcome.v)
  ELSE IF NoToken(outcome.v)
  THEN AzureCatch(c, ErrorOf(<<"Failed to acquire Azure access token during pagination">>, 0))
  ELSE
    LET token == Get(outcome.v, "token").s
    IN  AwaitFetch([c EXCEPT !.lastToken = token], "az:pageFetch",
                   [NoRequest EXCEPT !.url = c.currentUrl, !.method = "GET",
                                     !.token = c.token])

\* Lines 238-245: resumed with the page's token; the page is requested.
AzureOnPageToken(c, outcome) ==
  IF outcome.k = "throw" THEN AzureCatch(c, outcome.v)
  ELSE IF NoToken(outcome.v)
  THEN AzureCatch(c, ErrorOf(<<"Failed to acquire Azure access token during pagination">>, 0))
  ELSE
    LET token == Get(outcome.v, "token").s
    IN  AwaitFetch([c EXCEPT !.lastToken = token], "az:pageFetch",
                   [NoRequest EXCEPT !.url = c.currentUrl, !.method = "GET",
                                     !.token = token])

\* ParseBody that gives up on text that does not parse: no wrapper.
ParseBodyNoWrapper(body) ==
  IF Len(body.text) = 0 THEN EmptyObj
  ELSE IF body.valid THEN body.json
  ELSE Null

\* ParseBody without the guard for an empty text: JSON.parse("") throws,
\* and the empty text is wrapped.
ParseBodyNoEmptyGuard(body) ==
  IF body.valid THEN body.json ELSE Obj([rawResponse |-> Str(body.text)])

\* Lines 246-253 and 275-281: text ? JSON.parse(text) : {}, and the
\* raw-text wrapper when the text does not parse.
ParseBody(body) ==
  IF Len(body.text) = 0 THEN EmptyObj
  ELSE IF body.valid THEN body.json
  ELSE Obj([rawResponse |-> Str(body.text)])

\* Accumulate with the result of concat() dropped: allValues.concat(...)
\* without the assignment leaves the accumulator as it was.
AccumulateConcatDropped(allValues, pageData, currentUrl, url) ==
  IF Truthy(Get(pageData, "value")) /\ IsArray(Get(pageData, "value"))
  THEN allValues
  ELSE IF currentUrl = url /\ ~Truthy(Get(pageData, "nextLink"))
  THEN Append(allValues, pageData)
  ELSE allValues

\* Lines 260-266: what one page adds to the accumulator.
Accumulate(allValues, pageData, currentUrl, url) ==
  IF Truthy(Get(pageData, "value")) /\ IsArray(Get(pageData, "value"))
  THEN allValues \o Get(pageData, "value").items
  ELSE IF currentUrl = url /\ ~Truthy(Get(pageData, "nextLink"))
  THEN Append(allValues, pageData)
  ELSE allValues

\* NextUrl that goes on to a continuation URL of its own making
\* whenever the page names a successor.
NextUrlOwnContinuation(pageData) ==
  IF Truthy(Get(pageData, "nextLink")) THEN NextPageUrl ELSE <<>>

\* Line 267: pageData.nextLink || null (<<>> for null).
NextUrl(pageData) ==
  IF Truthy(Get(pageData, "nextLink")) THEN Get(pageData, "nextLink").s ELSE <<>>

\* Line 257.
PageError(status, currentUrl, pageData) ==
  ErrorOf(<<"API error (", ToString(status), ") during Azure RM pagination on ">>
            \o currentUrl \o <<": ">> \o Stringify(pageData), 0)

\* Line 284.
SingleError(status, responseData) ==
  ErrorOf(<<"API error (", ToString(status), ") for Azure RM: ">>
            \o Stringify(responseData), 0)

\* PageFailed testing for server errors only.
PageFailedServerOnly(resp) == resp.status >= 500

\* Line 255: !pageResponse.ok
PageFailed(resp) == ~Ok(resp.status)

Received(resp, data) == [status |-> resp.status, body |-> resp.body, data |-> data]

\* Lines 245-246: resumed with the response the page request resolved
\* with; its body is read next.
AzureOnPageResponse(c, outcome) ==
  IF outcome.k = "throw" THEN AzureCatch(c, outcome.v)
  ELSE AwaitText(c, "az:pageText", outcome.v)

\* Lines 246-270: resumed with the text of the page's body.
AzureOnPage(c, outcome) ==
  IF outcome.k = "throw" THEN AzureCatch(c, outcome.v)
  ELSE
    LET resp == [status |-> c.status, body |-> outcome.v]
        pageData == ParseBody(resp.body)
        d == [c EXCEPT !.pages = Log(@, Received(resp, pageData))]
    IN  IF PageFailed(resp)
        THEN AzureCatch(d, PageError(resp.status, c.currentUrl, pageData))
        ELSE IF Nullish(pageData)
        THEN AzureCatch(d, TypeErrorOf(pageData, "value"))
        ELSE
          LET e == [d EXCEPT
                      !.allValues = Accumulate(c.allValues, pageData, c.currentUrl, c.url),
                      !.currentUrl = NextUrl(pageData)]
          IN  IF Len(e.currentUrl) > 0
              THEN AwaitToken(e, "az:pageToken")
              ELSE Return(e, Success(Obj([allValues |-> Arr(e.allValues)])))

\* Lines 274-275: resumed with the response the single request resolved
\* with; its body is read next.
AzureOnFetchResponse(c, outcome) ==
  IF outcome.k = "throw" THEN AzureCatch(c, outcome.v)
  ELSE AwaitText(c, "az:text", outcome.v)

\* Lines 275-290: resumed with the text of the response's body.
AzureOnFetch(c, outcome) ==
  IF outcome.k = "throw" THEN AzureCatch(c, outcome.v)
  ELSE
    LET resp == [status |-> c.status, body |-> outcome.v]
        responseData == ParseBody(resp.body)
        d == [c EXCEPT !.pages = Log(@, Received(resp, responseData))]
    IN  IF ~Ok(resp.status)
        THEN AzureCatch(d, SingleError(resp.status, responseData))
        ELSE Return(d, Success(responseData))

----------------------------------------------------------------------------
(* Microsoft Graph: requests and responses of the SDK client.              *)

\* The logical requests callGraphApi is given.
GraphParams ==
  { [path |-> <<"/users">>, method |-> m,
     queryParams |-> IF full THEN << <<"$top", "5">> >> ELSE <<>>,
     body |-> IF full THEN Obj([displayName |-> Str(<<"x">>)]) ELSE Undefined,
     graphApiVersion |-> v,
     fetchAll |-> fa,
     consistencyLevel |-> IF full THEN <<"eventual">> ELSE <<>>]
    : m \in Methods, fa \in BOOLEAN, full \in BOOLEAN,
      v \in {"", "v1.0"} }

GraphNextLink == Str(<<"https://graph.microsoft.com/beta/users?$skiptoken=xyz">>)

GraphContext == Str(<<"https://graph.microsoft.com/beta/$metadata#users">>)

\* What a request of the SDK client may resolve with: a JSON object, or
\* nothing (undefined, null) when the backend sent no content.
GraphPayloads ==
  { Obj(Prop("@odata.context", ctx) @@ Prop("value", v) @@ Prop("@odata.nextLink", n))
    : ctx \in {Undefined, GraphContext}, v \in ValueFields,
      n \in {Undefined, GraphNextLink} }
    \cup {Undefined, Null}

GraphOutcomes ==
  { Returns(r) : r \in GraphPayloads } \cup { Throws(e) : e \in Thrown }

----------------------------------------------------------------------------
(* callGraphApi, lines 53-167.                                             *)

\* Lines 155-166, the catch block.  Reading error.body of a thrown null or
\* undefined raises a TypeError inside the handler.
GraphCatch(c, e) ==
  IF Nullish(e)
  THEN Reject(c, TypeErrorOf(e, "body"))
  ELSE Return(c, Failure(MessageOf(e), StatusCodeOf(e)))

\* Line 65.
EffectiveGraphApiVersion(h, params) ==
  IF ~h.useGraphBeta THEN "v1.0"
  ELSE IF params.graphApiVersion = "" THEN h.defaultGraphApiVersion
  ELSE params.graphApiVersion

\* Lines 75-86 and the request of lines 98-141.
GraphRequest(h, params) ==
  [NoRequest EXCEPT
     !.url = params.path,
     !.method = params.method,
     !.version = EffectiveGraphApiVersion(h, params),
     !.query = params.queryParams,
     !.consistencyLevel = params.consistencyLevel,
     !.body = IF params.method \in {"post", "put", "patch"}
              THEN (IF Nullish(params.body) THEN EmptyObj ELSE params.body)
              ELSE Undefined]

\* Lines 69-141: the method up to its await.
GraphEnter(h, params) ==
  LET c == [IdleFrame EXCEPT !.api = "graph", !.params = params]
  IN  IF ~h.graphClient
      THEN GraphCatch(c, ErrorOf(<<"Graph client not initialized">>, 0))
      ELSE AwaitFetch(c, "graph:request", GraphRequest(h, params))

\* fetchAllError.message, as the template of line 123 renders it: the
\* message of an Error, the `message` property of a plain object, and
\* "undefined" for a value that has no such property.
MessageProperty(e) ==
  IF e.t = "error" THEN e.message ELSE StringOf(Get(e, "message"))

\* GraphFirstPage that copies the first page's cursor into the result.
GraphFirstPageKeepsCursor(outcome) ==
  IF outcome.k = "throw"
  THEN IF Nullish(outcome.v)
       THEN Throws(TypeErrorOf(outcome.v, "message"))
       ELSE Throws(ErrorOf(<<"FetchAll failed: ">> \o MessageProperty(outcome.v), 0))
  ELSE IF Nullish(outcome.v)
  THEN Throws(ErrorOf(<<"FetchAll failed: ">> \o TypeErrorOf(outcome.v, "value").message, 0))
  ELSE
    LET first == outcome.v
        odataContext == Get(first, "@odata.context")
        allItems == IF IsArray(Get(first, "value")) THEN Get(first, "value").items ELSE <<>>
    IN  Returns(Obj(("@odata.context" :> odataContext) @@ ("value" :> Arr(allItems))
                      @@ Prop("@odata.nextLink", Get(first, "@odata.nextLink"))))

\* Lines 95-124: the first page of a fetchAll get, inside the inner try.
\* What the inner try throws is rethrown wrapped; reading .message of a
\* thrown null or undefined raises a TypeError in the inner handler, which
\* the outer catch receives.
GraphFirstPage(outcome) ==
  IF outcome.k = "throw"
  THEN IF Nullish(outcome.v)
       THEN Throws(TypeErrorOf(outcome.v, "message"))
       ELSE Throws(ErrorOf(<<"FetchAll failed: ">> \o MessageProperty(outcome.v), 0))
  ELSE IF Nullish(outcome.v)
  THEN Throws(ErrorOf(<<"FetchAll failed: ">> \o TypeErrorOf(outcome.v, "value").message, 0))
  ELSE
    LET first == outcome.v
        odataContext == Get(first, "@odata.context")
        allItems == IF IsArray(Get(first, "value")) THEN Get(first, "value").items ELSE <<>>
    IN  Returns(Obj(("@odata.context" :> odataContext) @@ ("value" :> Arr(allItems))))

\* GraphDelete that hands on what request.delete() resolved with.
GraphDeleteAsIs(outcome) == outcome

\* Lines 141-145.
GraphDelete(outcome) ==
  IF outcome.k = "return" /\ Nullish(outcome.v)
  THEN Returns(Obj([status |-> Str(<<"Success (No Content)">>)]))
  ELSE outcome

\* What a request of the SDK client resolved with, as the frame's log
\* keeps it: the client hands over the payload only (status 0, no text).
Resolved(payload) == [status |-> 0, body |-> EmptyBody, data |-> payload]

\* The frame with the payload the SDK request resolved with logged.
GraphReceived(c, outcome) ==
  IF outcome.k = "return"
  THEN [c EXCEPT !.pages = Log(@, Resolved(outcome.v))]
  ELSE c

\* GraphOnResponse that takes the first-page path for every get, asked
\* for fetchAll or not.
GraphOnResponseFirstPageAlways(c, outcome) ==
  LET r == CASE c.params.method = "get" -> GraphFirstPage(outcome)
             [] c.params.method = "delete" -> GraphDelete(outcome)
             [] OTHER -> outcome
      d == GraphReceived(c, outcome)
  IN  IF r.k = "throw" THEN GraphCatch(d, r.v) ELSE Return(d, Success(r.v))

\* Lines 91-153: resumed with what the SDK request produced.
GraphOnResponse(c, outcome) ==
  LET r == CASE c.params.method = "get" /\ c.params.fetchAll -> GraphFirstPage(outcome)
             [] c.params.method = "delete" -> GraphDelete(outcome)
             [] OTHER -> outcome
      d == GraphReceived(c, outcome)
  IN  IF r.k = "throw" THEN GraphCatch(d, r.v) ELSE Return(d, Success(r.v))

----------------------------------------------------------------------------
(* hasMorePages, lines 306-309.                                            *)

\* NextLinkKey with one key for both backends.
NextLinkKeySame(apiType) == "@odata.nextLink"

NextLinkKey(apiType) == IF apiType = "graph" THEN "@odata.nextLink" ELSE "nextLink"

hasMorePages(data, apiType) ==
  IF Truthy(data) /\ Truthy(Get(data, NextLinkKey(apiType))) THEN TRUE ELSE FALSE

----------------------------------------------------------------------------
(* The state machine.                                                      *)

\* GraphApiHelper instances (constructor, lines 38-48): with both
\* collaborators; with a Graph client only and USE_GRAPH_BETA off; and
\* without collaborators.
Helpers ==
  { [graphClient |-> TRUE, authManager |-> TRUE, useGraphBeta |-> TRUE,
     defaultGraphApiVersion |-> "beta"],
    [graphClient |-> TRUE, authManager |-> FALSE, useGraphBeta |-> FALSE,
     defaultGraphApiVersion |-> "beta"],
    [graphClient |-> FALSE, authManager |-> FALSE, useGraphBeta |-> TRUE,
     defaultGraphApiVersion |-> "beta"] }

NoProbe == [data |-> Undefined, apiType |-> "", applied |-> FALSE, result |-> FALSE]

\* process.env before anything is set.
NoEnv ==
  [USE_CERTIFICATE |-> "", USE_INTERACTIVE |-> "", USE_CLIENT_TOKEN |-> "",
   ACCESS_TOKEN |-> "", TENANT_ID |-> "", CLIENT_ID |-> "", CLIENT_SECRET |-> "",
   CERTIFICATE_PATH |-> ""]

\* The three slots, all null.
NoSlots == [authManager |-> Null, graphClient |-> Null, apiHelper |-> Null]

NoInjection == [accessToken |-> <<>>, expiresOn |-> Undefined, count |-> 0]

\* A tool request: its name and arguments and the frame of its handler.
\*   pc        "idle" (no request), the await the handler is suspended
\*             on, "done" (the handler returned `result`) or "rejected"
\*             (the handler threw `reason`)
\*   locals    what the handler keeps across its await
\*   call      the frame of the dispatch method a call-graph-api awaits
\* and, recorded for inspection:
\*   before    the slots as an add-graph-permission found them
\*   asked     the clock and the latest injection when a get-auth-status
\*             called getTokenStatus
IdleTool ==
  [name |-> "", args |-> <<>>, pc |-> "idle",
   result |-> [isError |-> FALSE, text |-> <<>>, json |-> Undefined],
   reason |-> Undefined, locals |-> <<>>, call |-> IdleFrame,
   before |-> NoSlots, asked |-> [at |-> 0, injected |-> NoInjection]]

MainAt(pc, authMode, error) == [pc |-> pc, authMode |-> authMode, error |-> error]

\* The process before main() runs: lines 24-26, all three slots null.
ServerLoaded(e) ==
  /\ env = e
  /\ authManager = Null
  /\ graphClient = Null
  /\ apiHelper = Null
  /\ main = MainAt("start", "", Undefined)
  /\ tools = [h \in Handlers |-> IdleTool]
  /\ now = 0
  /\ injected = NoInjection
  /\ managers = 0

\* The callers of the concurrent invocations.
Callers == {"c1", "c2"}

\* No concurrent invocation was made.
NoCalls ==
  /\ calls = [i \in Callers |-> IdleFrame]
  /\ inputs = [i \in Callers |-> <<>>]

Init ==
  /\ helper \in Helpers
  /\ call = IdleFrame
  /\ probe = NoProbe
  /\ NoCalls
  /\ ServerLoaded(NoEnv)

\* callAzureApi(params) is invoked.
CallAzureApi ==
  /\ call.pc = "idle"
  /\ \E params \in AzureParams : call' = AzureEnter(helper, params)
  /\ UNCHANGED <<helper, probe, concVars, serverVars>>

\* callGraphApi(params) is invoked.
CallGraphApi ==
  /\ call.pc = "idle"
  /\ \E params \in GraphParams : call' = GraphEnter(helper, params)
  /\ UNCHANGED <<helper, probe, concVars, serverVars>>

\* The token acquisition of line 194 settles.
TokenArrives ==
  /\ call.pc = "az:getToken"
  /\ \E o \in TokenOutcomes : call' = AzureOnToken(call, o)
  /\ UNCHANGED <<helper, probe, concVars, serverVars>>

\* The token acquisition of line 238 settles.
PageTokenArrives ==
  /\ call.pc = "az:pageToken"
  /\ \E o \in TokenOutcomes : call' = AzureOnPageToken(call, o)
  /\ UNCHANGED <<helper, probe, concVars, serverVars>>

\* Whether the page response resp, received by frame c, leaves the
\* accumulator as it was (lines 260-266).
AddsNothing(c, resp) ==
  Accumulate(c.allValues, ParseBody(resp.body), c.currentUrl, c.url) = c.allValues

\* What reading the body of the response frame c holds may produce: the
\* text of a body the backend sends with that status, or a throw.
TextOutcomes(c) ==
  { Returns(r.body) : r \in { x \in AzureResponses(c.url) : x.status = c.status } }
    \cup { Throws(e) : e \in Thrown }

\* The same for the page request in flight.  In a bounded run the backend
\* names a successor only while fewer than MaxPages pages were requested;
\* a free backend may go on for ever with pages that add nothing and name
\* themselves as their successor.
PageOutcomes(c, free) ==
  { Returns(r.body) : r \in { x \in AzureResponses(c.url) :
       /\ x.status = c.status
       /\ Continues(x) => \/ c.nHttp < MaxPages
                          \/ /\ free
                             /\ AddsNothing(c, x)
                             /\ NextUrl(x.body.json) = c.currentUrl } }
    \cup { Throws(e) : e \in Thrown }

\* The page request of line 245 settles.
PageArrives ==
  /\ call.pc = "az:pageFetch"
  /\ \E o \in FetchOutcomes(call.url) : call' = AzureOnPageResponse(call, o)
  /\ UNCHANGED <<helper, probe, concVars, serverVars>>

\* The body read of line 246 settles.
PageTextArrives(free) ==
  /\ call.pc = "az:pageText"
  /\ \E o \in PageOutcomes(call, free) : call' = AzureOnPage(call, o)
  /\ UNCHANGED <<helper, probe, concVars, serverVars>>

\* The request of line 274 settles.
FetchArrives ==
  /\ call.pc = "az:fetch"
  /\ \E o \in FetchOutcomes(call.url) : call' = AzureOnFetchResponse(call, o)
  /\ UNCHANGED <<helper, probe, concVars, serverVars>>

\* The body read of line 275 settles.
FetchTextArrives ==
  /\ call.pc = "az:text"
  /\ \E o \in TextOutcomes(call) : call' = AzureOnFetch(call, o)
  /\ UNCHANGED <<helper, probe, concVars, serverVars>>

\* The request of the Graph SDK client settles.
GraphResponds ==
  /\ call.pc = "graph:request"
  /\ \E o \in GraphOutcomes : call' = GraphOnResponse(call, o)
  /\ UNCHANGED <<helper, probe, concVars, serverVars>>

Next ==
  \/ CallAzureApi
  \/ CallGraphApi
  \/ TokenArrives
  \/ PageTokenArrives
  \/ PageArrives
  \/ PageTextArrives(FALSE)
  \/ FetchArrives
  \/ FetchTextArrives
  \/ GraphResponds

Spec == Init /\ [][Next]_vars

\* The same machine against a backend that is free to name a successor on
\* every page.  Every awaited token acquisition, HTTP request
\* and body read eventually settles.
NextLive ==
  \/ CallAzureApi
  \/ CallGraphApi
  \/ TokenArrives
  \/ PageTokenArrives
  \/ PageArrives
  \/ PageTextArrives(TRUE)
  \/ FetchArrives
  \/ FetchTextArrives
  \/ GraphResponds

SpecLive == Init /\ [][NextLive]_vars /\ WF_vars(NextLive)

----------------------------------------------------------------------------
(* hasMorePages applied to payloads of every shape.                        *)

CursorValues ==
  { Undefined, Null, Str(<<>>), Num(0), Bool(FALSE),
    Str(<<"https://next">>), Num(1), Bool(TRUE) }

ProbeData ==
  { Obj(Prop("@odata.nextLink", g) @@ Prop("nextLink", a) @@ ("value" :> Arr(<<>>)))
    : g \in CursorValues, a \in CursorValues }
    \cup { Undefined, Null, Str(<<>>), Str(<<"text">>), Num(0), Bool(FALSE), Arr(<<>>) }

InitHasMorePages ==
  /\ helper \in Helpers
  /\ call = IdleFrame
  /\ NoCalls
  /\ ServerLoaded(NoEnv)
  /\ \E d \in ProbeData, k \in {"graph", "azure"} :
        probe = [data |-> d, apiType |-> k, applied |-> FALSE, result |-> FALSE]

HasMorePagesCalled ==
  /\ ~probe.applied
  /\ probe' = [probe EXCEPT !.applied = TRUE,
                            !.result = hasMorePages(probe.data, probe.apiType)]
  /\ UNCHANGED <<helper, call, concVars, serverVars>>

NextHasMorePages == HasMorePagesCalled

SpecHasMorePages == InitHasMorePages /\ [][NextHasMorePages]_vars

----------------------------------------------------------------------------
(* Concurrent invocations on one helper.  The operations layer may call    *)
(* the helper again while an earlier call is suspended at an await; the    *)
(* suspended frames are resumed in any order.                              *)

\* Page requests one aggregation of a concurrent run may make.
MaxConcurrentPages == 2

\* The method invoked and its argument.
ConcurrentRequests ==
  { [api |-> "azure", params |-> p]
    : p \in { q \in AzureParams : q.method = "get" /\ q.fetchAll } }
    \cup { [api |-> "graph", params |-> p]
           : p \in { q \in GraphParams :
                       /\ q.method = "get"
                       /\ ~q.fetchAll
                       /\ q.queryParams = <<>>
                       /\ q.graphApiVersion = "" } }

\* What the await a frame is suspended on may produce in a concurrent
\* run: either token; a page with an item and a successor, a last page of
\* two items, or a failing page; a Graph payload or a thrown SDK error.
ConcurrentOutcomes(c) ==
  CASE c.pc \in {"az:getToken", "az:pageToken"} ->
         { Returns(Obj([token |-> Str(<<tk>>)])) : tk \in Tokens }
    [] c.pc = "az:pageFetch" ->
         { Returns(ResponseOf(st)) : st \in {200, 404} }
    [] c.pc = "az:pageText" ->
         { Returns(r.body) : r \in
             { x \in AzureResponses(c.url) :
                 /\ x.status = c.status
                 /\ x.body \in { JsonBody(Obj([value |-> Arr(<<Items.a>>),
                                                nextLink |-> Str(NextPageUrl)])),
                                  JsonBody(Obj([value |-> Arr(<<Items.b, Items.c>>)])),
                                  JsonBody(Obj([error |-> Str(<<"ResourceNotFound">>)])) }
                 /\ Continues(x) => c.nHttp < MaxConcurrentPages } }
    [] c.pc = "graph:request" ->
         { Returns(Obj([value |-> Arr(<<Items.a>>)])),
           Returns(Obj(("value" :> Arr(<<Items.b, Items.c>>))
                         @@ ("@odata.nextLink" :> GraphNextLink))),
           Throws(ErrorOf(<<"Forbidden">>, 403)) }
    [] OTHER -> {}

\* Lines 53-63 and 172-183: the method body a call enters.
Enter(h, api, params) ==
  IF api = "azure" THEN AzureEnter(h, params) ELSE GraphEnter(h, params)

\* The continuation of a suspended frame, by the await it is suspended on.
Resume(c, outcome) ==
  CASE c.pc = "az:getToken" -> AzureOnToken(c, outcome)
    [] c.pc = "az:pageToken" -> AzureOnPageToken(c, outcome)
    [] c.pc = "az:pageFetch" -> AzureOnPageResponse(c, outcome)
    [] c.pc = "az:pageText" -> AzureOnPage(c, outcome)
    [] c.pc = "az:fetch" -> AzureOnFetchResponse(c, outcome)
    [] c.pc = "az:text" -> AzureOnFetch(c, outcome)
    [] c.pc = "graph:request" -> GraphOnResponse(c, outcome)
    [] OTHER -> c

\* Invocation with the accumulator kept in a field of the helper: every
\* frame sees the items any frame has accumulated.
InvocationSharedAccumulator(cs, i) ==
  LET others == { j \in DOMAIN cs : j # i /\ cs[j].allValues # <<>> }
  IN  IF others = {} THEN cs[i]
      ELSE [cs[i] EXCEPT !.allValues = cs[CHOOSE j \in others : TRUE].allValues \o @]

\* The frame invocation i runs on: parameters and locals (allValues,
\* currentUrl, headers, lines 215-231) belong to the invocation.
Invocation(cs, i) == cs[i]

InitConcurrent ==
  /\ helper \in { h \in Helpers : h.graphClient /\ h.authManager }
  /\ call = IdleFrame
  /\ probe = NoProbe
  /\ NoCalls
  /\ ServerLoaded(NoEnv)

\* Caller i invokes a dispatch method.
ConcurrentCall(i) ==
  /\ calls[i].pc = "idle"
  /\ \E r \in ConcurrentRequests :
        calls' = [calls EXCEPT ![i] = Enter(helper, r.api, r.params)]
  /\ UNCHANGED <<helper, call, probe, inputs, serverVars>>

\* The await invocation i is suspended on settles.
ConcurrentSettles(i) ==
  /\ \E o \in ConcurrentOutcomes(calls[i]) :
        /\ calls' = [calls EXCEPT ![i] = Resume(Invocation(calls, i), o)]
        /\ inputs' = [inputs EXCEPT ![i] = Append(@, o)]
  /\ UNCHANGED <<helper, call, probe, serverVars>>

NextConcurrent ==
  \E i \in Callers :
    \/ ConcurrentCall(i)
    \/ ConcurrentSettles(i)

SpecConcurrent == InitConcurrent /\ [][NextConcurrent]_vars

----------------------------------------------------------------------------
(* Dates and the wall clock.  A time value is a day number from the epoch,  *)
(* a second of that day and a millisecond; the local time zone of the       *)
(* process is UTC.  new Date(text) follows the date parser of the V8        *)
(* engine Node.js runs on: the ECMAScript date-time format first, then the  *)
(* engine's legacy rules for whatever is left.                              *)

\* The last second the clock reaches.
MaxClock == 2

SecondsPerDay == 24 * 60 * 60

\* The days a time value may lie from the epoch (8.64e15 ms).
MaxDay == 10^8

\* The largest year the calendar arithmetic is asked about; every year
\* beyond it is outside the range of time values.
MaxYear == 10^6 - 1

\* The largest 32-bit integer.
MaxInt == (2^30 - 1) + 2^30

\* A composer field nothing was written to (kNone).
None == MaxInt

DateOf(day, sec, ms) == [t |-> "date", valid |-> TRUE, day |-> day, sec |-> sec, ms |-> ms]

\* The Invalid Date: its time value is NaN.
InvalidDate == [t |-> "date", valid |-> FALSE, day |-> 0, sec |-> 0, ms |-> 0]

\* new Date() when the clock shows `seconds`.
DateAt(seconds) == DateOf(seconds \div SecondsPerDay, seconds % SecondsPerDay, 0)

\* a > b on two valid dates.
Later(a, b) ==
  \/ a.day > b.day
  \/ a.day = b.day /\ a.sec > b.sec
  \/ a.day = b.day /\ a.sec = b.sec /\ a.ms > b.ms

\* TimeClip: a time value beyond the range is NaN.
InRange(day, sec, ms) ==
  \/ -MaxDay <= day /\ day < MaxDay
  \/ day = MaxDay /\ sec = 0 /\ ms = 0

\* The day number of the first of month m of year y, plus d - 1 (MakeDay).
DaysFromCivil(y, m, d) ==
  LET yy == IF m <= 2 THEN y - 1 ELSE y
      era == yy \div 400
      yoe == yy - era * 400
      mp == (m + 9) % 12
      doy == (153 * mp + 2) \div 5 + d - 1
      doe == yoe * 365 + yoe \div 4 - yoe \div 100 + doy
  IN  era * 146097 + doe - 719468

\* The year, month and day of month of a day number.
CivilFromDays(z) ==
  LET zz == z + 719468
      era == zz \div 146097
      doe == zz - era * 146097
      yoe == (doe - doe \div 1460 + doe \div 36524 - doe \div 146096) \div 365
      doy == doe - (365 * yoe + yoe \div 4 - yoe \div 100)
      mp == (5 * doy + 2) \div 153
      m == IF mp < 10 THEN mp + 3 ELSE mp - 9
  IN  [year |-> yoe + era * 400 + (IF m <= 2 THEN 1 ELSE 0),
       month |-> m,
       day |-> doy - (153 * mp + 2) \div 5 + 1]

RECURSIVE PadTo(_, _)
\* s with zeros in front up to width w.
PadTo(s, w) == IF Len(s) >= w THEN s ELSE PadTo("0" \o s, w)

Pad(n, w) == PadTo(ToString(n), w)

\* Date.prototype.toISOString of a valid date: YYYY-MM-DDTHH:mm:ss.sssZ,
\* with a sign and six digits for a year outside 0..9999.
ToISOString(d) ==
  LET c == CivilFromDays(d.day)
      year == IF c.year >= 0 /\ c.year <= 9999 THEN Pad(c.year, 4)
              ELSE IF c.year < 0 THEN "-" \o Pad(-c.year, 6)
              ELSE "+" \o Pad(c.year, 6)
  IN  << year \o "-" \o Pad(c.month, 2) \o "-" \o Pad(c.day, 2)
         \o "T" \o Pad(d.sec \div 3600, 2) \o ":" \o Pad((d.sec % 3600) \div 60, 2)
         \o ":" \o Pad(d.sec % 60, 2) \o "." \o Pad(d.ms, 3) \o "Z" >>

\* The ISO text of the instant `seconds` after the epoch.
IsoAt(seconds) == ToISOString(DateAt(seconds))

\* What JSON.stringify makes of a Date property (toJSON): the ISO text,
\* null for the Invalid Date.
DateToJSON(d) ==
  IF d.t # "date" THEN d
  ELSE IF d.valid THEN Str(ToISOString(d)) ELSE Null

RECURSIVE Flatten(_)
\* The characters of a text, its pieces joined.
Flatten(text) == IF text = <<>> THEN "" ELSE Head(text) \o Flatten(Tail(text))

Digits == "0123456789"

UpperCase == "ABCDEFGHIJKLMNOPQRSTUVWXYZ"

LowerCase == "abcdefghijklmnopqrstuvwxyz"

\* The ASCII characters below "A" that are neither digits nor white space.
Punctuation == "!\"#$%&'()*+,-./:;<=>?@"

IsDigit(ch) == IsIn(ch, Digits)

DigitValue(ch) == (CHOOSE i \in 1..Len(Digits) : Char(Digits, i) = ch) - 1

\* IsWhiteSpaceOrLineTerminator, which the date parser and
\* String.prototype.trim share.
IsWhiteSpace(ch) == IsIn(ch, WhiteSpace)

\* A character of a word: "A" or above, and no white space.
IsAlphaOrAbove(ch) ==
  /\ ~IsDigit(ch)
  /\ ~IsWhiteSpace(ch)
  /\ ~IsIn(ch, Punctuation)
  /\ ~IsIn(ch, ControlCharacters)

ToLower(ch) ==
  IF IsIn(ch, UpperCase)
  THEN Char(LowerCase, CHOOSE i \in 1..Len(UpperCase) : Char(UpperCase, i) = ch)
  ELSE ch

RECURSIVE DigitsEnd(_, _)
\* The position after the run of digits that starts at i.
DigitsEnd(s, i) ==
  IF i <= Len(s) /\ IsDigit(Char(s, i)) THEN DigitsEnd(s, i + 1) ELSE i

RECURSIVE WordEnd(_, _)
WordEnd(s, i) ==
  IF i <= Len(s) /\ IsAlphaOrAbove(Char(s, i)) THEN WordEnd(s, i + 1) ELSE i

RECURSIVE SpaceEnd(_, _)
SpaceEnd(s, i) ==
  IF i <= Len(s) /\ IsWhiteSpace(Char(s, i)) THEN SpaceEnd(s, i + 1) ELSE i

RECURSIVE ParenthesesEnd(_, _, _)
\* SkipParentheses from the "(" at i: the position after its match, or
\* the end of the text.
ParenthesesEnd(s, i, balance) ==
  LET b == IF Char(s, i) = ")" THEN balance - 1
           ELSE IF Char(s, i) = "(" THEN balance + 1
           ELSE balance
  IN  IF b > 0 /\ i + 1 <= Len(s) THEN ParenthesesEnd(s, i + 1, b) ELSE i + 1

RECURSIVE Numeral(_, _, _, _, _)
\* ReadUnsignedNumeral over s[i..j-1]: leading zeros are skipped and no
\* more than nine digits are converted, the others dropped.
Numeral(s, i, j, n, count) ==
  IF i >= j THEN n
  ELSE LET d == DigitValue(Char(s, i))
       IN  IF count = 0 /\ d = 0 THEN Numeral(s, i + 1, j, n, count)
           ELSE IF count < 9 THEN Numeral(s, i + 1, j, n * 10 + d, count + 1)
           ELSE Numeral(s, i + 1, j, n, count + 1)

RECURSIVE LowerFrom(_, _, _)
\* The characters s[i..j-1] in lower case.
LowerFrom(s, i, j) ==
  IF i >= j THEN "" ELSE ToLower(Char(s, i)) \o LowerFrom(s, i + 1, j)

\* The keyword table: the first three letters of a word, its type and its
\* value (a month number, an hour offset, a zone's hours from UTC).
Keywords ==
  << <<"jan", "month", 1>>, <<"feb", "month", 2>>, <<"mar", "month", 3>>,
     <<"apr", "month", 4>>, <<"may", "month", 5>>, <<"jun", "month", 6>>,
     <<"jul", "month", 7>>, <<"aug", "month", 8>>, <<"sep", "month", 9>>,
     <<"oct", "month", 10>>, <<"nov", "month", 11>>, <<"dec", "month", 12>>,
     <<"am", "ampm", 0>>, <<"pm", "ampm", 12>>,
     <<"ut", "zone", 0>>, <<"utc", "zone", 0>>, <<"z", "zone", 0>>, <<"gmt", "zone", 0>>,
     <<"cdt", "zone", -5>>, <<"cst", "zone", -6>>, <<"edt", "zone", -4>>,
     <<"est", "zone", -5>>, <<"mdt", "zone", -6>>, <<"mst", "zone", -7>>,
     <<"pdt", "zone", -7>>, <<"pst", "zone", -8>>,
     <<"t", "separator", 0>> >>

\* KeywordTable::Lookup: a word longer than its keyword is a keyword only
\* when it names a month.
Keyword(prefix, length) ==
  LET hits == { i \in 1..Len(Keywords) :
                  /\ Keywords[i][1] = prefix
                  /\ (length <= 3 \/ Keywords[i][2] = "month") }
  IN  IF hits = {}
      THEN [k |-> "keyword", type |-> "invalid", value |-> 0, len |-> length]
      ELSE LET i == CHOOSE h \in hits : TRUE
           IN  [k |-> "keyword", type |-> Keywords[i][2], value |-> Keywords[i][3],
                len |-> length]

RECURSIVE Scan(_, _)
\* DateStringTokenizer: the tokens of s from position i on.
Scan(s, i) ==
  IF i > Len(s) THEN <<>>
  ELSE
    LET ch == Char(s, i)
    IN  IF IsDigit(ch)
        THEN LET j == DigitsEnd(s, i)
             IN  << [k |-> "number", n |-> Numeral(s, i, j, 0, 0), len |-> j - i] >>
                   \o Scan(s, j)
        ELSE IF ch \in {":", "-", "+", ".", ")"}
        THEN << [k |-> "symbol", ch |-> ch] >> \o Scan(s, i + 1)
        ELSE IF IsAlphaOrAbove(ch)
        THEN LET j == WordEnd(s, i)
                 m == IF j - i > 3 THEN i + 3 ELSE j
             IN  << Keyword(LowerFrom(s, i, m), j - i) >> \o Scan(s, j)
        ELSE IF IsWhiteSpace(ch)
        THEN << [k |-> "space"] >> \o Scan(s, SpaceEnd(s, i))
        ELSE IF ch = "("
        THEN << [k |-> "unknown"] >> \o Scan(s, ParenthesesEnd(s, i, 0))
        ELSE << [k |-> "unknown"] >> \o Scan(s, i + 1)

EndOfInput == [k |-> "end"]

\* The token at position i, the end of input after the last.
TokenAt(ts, i) == IF i <= Len(ts) THEN ts[i] ELSE EndOfInput

IsSymbol(tok, ch) == tok.k = "symbol" /\ tok.ch = ch

IsAsciiSign(tok) == tok.k = "symbol" /\ tok.ch \in {"+", "-"}

IsFixedNumber(tok, length) == tok.k = "number" /\ tok.len = length

IsKeywordType(tok, type) == tok.k = "keyword" /\ tok.type = type

IsKeywordZ(tok) == IsKeywordType(tok, "zone") /\ tok.len = 1

IsMonth(x) == 1 <= x /\ x <= 12

IsDay(x) == 1 <= x /\ x <= 31

IsHour(x) == 0 <= x /\ x <= 23

IsHour12(x) == 0 <= x /\ x <= 12

IsMinute(x) == 0 <= x /\ x <= 59

IsSecond(x) == 0 <= x /\ x <= 59

IsMillisecond(x) == 0 <= x /\ x <= 999

RECURSIVE Shorten(_, _)
\* number / 10^(length - 3)
Shorten(number, length) ==
  IF length <= 3 THEN number ELSE Shorten(number \div 10, length - 1)

\* ReadMilliseconds: the first three digits of a fraction.
ReadMilliseconds(tok) ==
  IF tok.len = 1 THEN tok.n * 100
  ELSE IF tok.len = 2 THEN tok.n * 10
  ELSE Shorten(tok.n, IF tok.len > 9 THEN 9 ELSE tok.len)

\* The day, time and time zone composers before anything is read.
Composers ==
  [failed |-> FALSE, day |-> <<>>, namedMonth |-> None, iso |-> FALSE,
   time |-> <<>>, hourOffset |-> None,
   tzSign |-> None, tzHour |-> None, tzMinute |-> None, hasReadNumber |-> FALSE]

\* The parse gave up: the text is no date.
ParseFailed == [Composers EXCEPT !.failed = TRUE]

\* TimeZoneComposer::Set
SetZone(st, hours) ==
  [st EXCEPT !.tzSign = IF hours < 0 THEN -1 ELSE 1,
             !.tzHour = IF hours < 0 THEN -hours ELSE hours,
             !.tzMinute = 0]

\* TimeComposer::IsExpecting
TimeExpecting(st, n) ==
  \/ Len(st.time) = 1 /\ IsMinute(n)
  \/ Len(st.time) = 2 /\ IsSecond(n)
  \/ Len(st.time) = 3 /\ IsMillisecond(n)

\* TimeZoneComposer::IsExpecting
ZoneExpecting(st, n) == st.tzHour # None /\ st.tzMinute = None /\ IsMinute(n)

RECURSIVE ZeroFill(_)
ZeroFill(time) == IF Len(time) >= 4 THEN time ELSE ZeroFill(Append(time, 0))

RECURSIVE Legacy(_, _, _)
\* The legacy parser from token i on: a number followed by ":" or "." is
\* a time component, any other number a day component; a month name, a
\* time zone name and an offset after UTC or a time are recorded; words
\* before the first number are skipped.
Legacy(ts, i, st) ==
  IF st.failed \/ i > Len(ts) THEN st
  ELSE
    LET tok == ts[i]
        peek == TokenAt(ts, i + 1)
        peek2 == TokenAt(ts, i + 2)
    IN
    IF tok.k = "number"
    THEN
      LET n == tok.n
          s1 == [st EXCEPT !.hasReadNumber = TRUE]
          dot == IsSymbol(peek, ".")
          base == IF dot THEN i + 2 ELSE i + 1
          after == TokenAt(ts, base)
      IN
      IF IsSymbol(peek, ":")
      THEN IF IsSymbol(peek2, ":")
           THEN IF s1.time # <<>> THEN ParseFailed
                ELSE Legacy(ts, i + 3, [s1 EXCEPT !.time = <<n, 0>>])
           ELSE IF Len(s1.time) >= 4 THEN ParseFailed
                ELSE Legacy(ts, IF IsSymbol(peek2, ".") THEN i + 3 ELSE i + 2,
                            [s1 EXCEPT !.time = Append(@, n)])
      ELSE IF dot /\ TimeExpecting(s1, n)
      THEN IF after.k # "number" \/ Len(s1.time) >= 3 THEN ParseFailed
           ELSE Legacy(ts, base + 1,
                       [s1 EXCEPT !.time = ZeroFill(Append(Append(@, n),
                                                           ReadMilliseconds(after)))])
      ELSE IF ZoneExpecting(s1, n)
      THEN Legacy(ts, base, [s1 EXCEPT !.tzMinute = n])
      ELSE IF TimeExpecting(s1, n)
      THEN IF ~(after.k \in {"end", "space"} \/ IsKeywordZ(after) \/ IsAsciiSign(after))
           THEN ParseFailed
           ELSE Legacy(ts, base, [s1 EXCEPT !.time = ZeroFill(Append(@, n))])
      ELSE IF Len(s1.day) >= 3 THEN ParseFailed
           ELSE Legacy(ts, IF IsSymbol(after, "-") THEN base + 1 ELSE base,
                       [s1 EXCEPT !.day = Append(@, n)])
    ELSE IF tok.k = "keyword"
    THEN
      IF tok.type = "ampm" /\ st.time # <<>>
      THEN Legacy(ts, i + 1, [st EXCEPT !.hourOffset = tok.value])
      ELSE IF tok.type = "month"
      THEN Legacy(ts, IF IsSymbol(peek, "-") THEN i + 2 ELSE i + 1,
                  [st EXCEPT !.namedMonth = tok.value])
      ELSE IF tok.type = "zone" /\ st.hasReadNumber
      THEN Legacy(ts, i + 1, SetZone(st, tok.value))
      ELSE IF st.hasReadNumber \/ peek.k = "number" THEN ParseFailed
           ELSE Legacy(ts, i + 1, st)
    ELSE IF IsAsciiSign(tok) /\ ((st.tzHour = 0 /\ st.tzMinute = 0) \/ st.time # <<>>)
    THEN
      LET numbered == peek.k = "number"
          n == IF numbered THEN peek.n ELSE 0
          length == IF numbered THEN peek.len ELSE 0
          next == IF numbered THEN i + 2 ELSE i + 1
          s1 == [st EXCEPT !.tzSign = IF tok.ch = "-" THEN -1 ELSE 1,
                           !.hasReadNumber = TRUE]
      IN  IF IsSymbol(TokenAt(ts, next), ":")
          THEN Legacy(ts, next, [s1 EXCEPT !.tzHour = n, !.tzMinute = None])
          ELSE IF length \in {1, 2}
          THEN Legacy(ts, next, [s1 EXCEPT !.tzHour = n, !.tzMinute = 0])
          ELSE IF length \in {3, 4}
          THEN Legacy(ts, next, [s1 EXCEPT !.tzHour = n \div 100, !.tzMinute = n % 100])
          ELSE ParseFailed
    ELSE IF (IsAsciiSign(tok) \/ IsSymbol(tok, ")")) /\ st.hasReadNumber
    THEN ParseFailed
    ELSE Legacy(ts, i + 1, st)

\* The legacy parser takes over at token i with the day components read
\* so far.
LegacyFrom(ts, i, day) ==
  Legacy(ts, i, [Composers EXCEPT !.day = day, !.hasReadNumber = day # <<>>])

\* The text was a date-time string of the ECMAScript format; a date
\* without a time is in UTC.
IsoDate(day, time, zone) ==
  LET st == [zone EXCEPT !.day = day, !.time = time, !.iso = TRUE]
  IN  IF zone.tzHour = None /\ time = <<>> THEN SetZone(st, 0) ELSE st

\* ParseES5DateTime after the time: "Z", an offset hh:mm or hhmm, or
\* nothing, and then the end of the text.
AfterTime(ts, q, day, time) ==
  LET z == TokenAt(ts, q)
      a == TokenAt(ts, q + 1)
      b == TokenAt(ts, q + 3)
      signed == [Composers EXCEPT !.tzSign = IF IsSymbol(z, "+") THEN 1 ELSE -1]
  IN  IF IsKeywordZ(z)
      THEN IF TokenAt(ts, q + 1).k # "end" THEN ParseFailed
           ELSE IsoDate(day, time, SetZone(Composers, 0))
      ELSE IF IsAsciiSign(z)
      THEN IF IsFixedNumber(a, 4)
           THEN IF ~IsHour(a.n \div 100) \/ ~IsMinute(a.n % 100)
                   \/ TokenAt(ts, q + 2).k # "end"
                THEN ParseFailed
                ELSE IsoDate(day, time, [signed EXCEPT !.tzHour = a.n \div 100,
                                                      !.tzMinute = a.n % 100])
           ELSE IF ~IsFixedNumber(a, 2) \/ ~IsHour(a.n)
                   \/ ~IsSymbol(TokenAt(ts, q + 2), ":")
                   \/ ~IsFixedNumber(b, 2) \/ ~IsMinute(b.n)
                   \/ TokenAt(ts, q + 4).k # "end"
                THEN ParseFailed
                ELSE IsoDate(day, time, [signed EXCEPT !.tzHour = a.n, !.tzMinute = b.n])
      ELSE IF z.k # "end" THEN ParseFailed
      ELSE IsoDate(day, time, Composers)

\* ParseES5DateTime after the date: the end of the text, or "T" and
\* HH:mm, HH:mm:ss or HH:mm:ss.sss; 24:00:00.000 is the one time of hour
\* 24.  Anything else after the date is left to the legacy parser.
AfterDate(ts, p, day) ==
  LET h == TokenAt(ts, p + 1)
      mi == TokenAt(ts, p + 3)
      s == TokenAt(ts, p + 5)
      ms == TokenAt(ts, p + 7)
      is24 == h.n = 24
  IN  IF ~IsKeywordType(TokenAt(ts, p), "separator")
      THEN IF TokenAt(ts, p).k = "end" THEN IsoDate(day, <<>>, Composers)
           ELSE LegacyFrom(ts, p, day)
      ELSE IF ~IsFixedNumber(h, 2) \/ h.n > 24
              \/ ~IsSymbol(TokenAt(ts, p + 2), ":")
              \/ ~IsFixedNumber(mi, 2) \/ ~IsMinute(mi.n) \/ (is24 /\ mi.n > 0)
      THEN ParseFailed
      ELSE IF ~IsSymbol(TokenAt(ts, p + 4), ":")
      THEN AfterTime(ts, p + 4, day, <<h.n, mi.n>>)
      ELSE IF ~IsFixedNumber(s, 2) \/ ~IsSecond(s.n) \/ (is24 /\ s.n > 0)
      THEN ParseFailed
      ELSE IF ~IsSymbol(TokenAt(ts, p + 6), ".")
      THEN AfterTime(ts, p + 6, day, <<h.n, mi.n, s.n>>)
      ELSE IF ms.k # "number" \/ (is24 /\ ms.n > 0)
      THEN ParseFailed
      ELSE AfterTime(ts, p + 8, day, <<h.n, mi.n, s.n, ReadMilliseconds(ms)>>)

\* ParseES5DateTime after the year: -MM and -MM-DD.
AfterYear(ts, p, day) ==
  LET m == TokenAt(ts, p + 1)
      d == TokenAt(ts, p + 3)
  IN  IF ~IsSymbol(TokenAt(ts, p), "-") THEN AfterDate(ts, p, day)
      ELSE IF ~IsFixedNumber(m, 2) \/ ~IsMonth(m.n) THEN LegacyFrom(ts, p + 1, day)
      ELSE IF ~IsSymbol(TokenAt(ts, p + 2), "-") THEN AfterDate(ts, p + 2, Append(day, m.n))
      ELSE IF ~IsFixedNumber(d, 2) \/ ~IsDay(d.n)
      THEN LegacyFrom(ts, p + 3, Append(day, m.n))
      ELSE AfterDate(ts, p + 4, <<day[1], m.n, d.n>>)

\* DateParser::Parse: the year of the ECMAScript format (four digits, or
\* a sign and six) starts a date-time string; any other text is read by
\* the legacy parser from its first token.
ParseTokens(ts) ==
  LET first == TokenAt(ts, 1)
      second == TokenAt(ts, 2)
  IN  IF IsAsciiSign(first)
      THEN IF ~IsFixedNumber(second, 6) THEN LegacyFrom(ts, 1, <<>>)
           ELSE IF first.ch = "-" /\ second.n = 0 THEN LegacyFrom(ts, 3, <<>>)
           ELSE AfterYear(ts, 3, << IF first.ch = "-" THEN -second.n ELSE second.n >>)
      ELSE IF IsFixedNumber(first, 4) THEN AfterYear(ts, 2, <<first.n>>)
      ELSE LegacyFrom(ts, 1, <<>>)

\* DayComposer::Write: missing components are 1; without a month name
\* the components are year, month, day when the date is of the
\* ECMAScript format or starts with a number that is no day of a month,
\* and month, day, year otherwise; a year below 50 is of this century, a
\* year below 100 of the last.
DayWrite(st) ==
  LET c == [i \in 1..3 |-> IF i <= Len(st.day) THEN st.day[i] ELSE 1]
      ymd == IF st.namedMonth = None
             THEN IF st.iso \/ ~IsDay(c[1])
                  THEN [year |-> c[1], month |-> c[2], day |-> c[3]]
                  ELSE [year |-> c[3], month |-> c[1], day |-> c[2]]
             ELSE IF ~IsDay(c[1])
                  THEN [year |-> c[1], month |-> st.namedMonth, day |-> c[2]]
                  ELSE [year |-> c[2], month |-> st.namedMonth, day |-> c[1]]
      year == IF st.iso THEN ymd.year
              ELSE IF 0 <= ymd.year /\ ymd.year <= 49 THEN ymd.year + 2000
              ELSE IF 50 <= ymd.year /\ ymd.year <= 99 THEN ymd.year + 1900
              ELSE ymd.year
  IN  [ok |-> st.day # <<>> /\ IsMonth(ymd.month) /\ IsDay(ymd.day),
       year |-> year, month |-> ymd.month, day |-> ymd.day]

\* TimeComposer::Write: missing components are 0; am and pm shift a
\* twelve-hour clock.
TimeWrite(st) ==
  LET c == [i \in 1..4 |-> IF i <= Len(st.time) THEN st.time[i] ELSE 0]
      hour == IF st.hourOffset = None THEN c[1] ELSE (c[1] % 12) + st.hourOffset
      ok == /\ st.hourOffset # None => IsHour12(c[1])
            /\ \/ IsHour(hour) /\ IsMinute(c[2]) /\ IsSecond(c[3]) /\ IsMillisecond(c[4])
               \/ hour = 24 /\ c[2] = 0 /\ c[3] = 0 /\ c[4] = 0
  IN  [ok |-> ok,
       seconds |-> IF ok THEN hour * 3600 + c[2] * 60 + c[3] ELSE 0,
       ms |-> IF ok THEN c[4] ELSE 0]

\* The largest offset, in hours, whose seconds are a small integer.
MaxZoneHour == MaxInt \div 3600

\* TimeZoneComposer::Write: the offset from UTC in seconds; a time without
\* a zone is local time.  An offset whose seconds are no small integer is
\* rejected.
ZoneWrite(st) ==
  LET hour == IF st.tzHour = None THEN 0 ELSE st.tzHour
      minute == IF st.tzMinute = None THEN 0 ELSE st.tzMinute
      ok == st.tzSign = None \/ hour < MaxZoneHour
              \/ (hour = MaxZoneHour /\ minute * 60 <= 847)
  IN  [ok |-> ok,
       offset |-> IF st.tzSign = None \/ ~ok THEN 0
                  ELSE st.tzSign * (hour * 3600 + minute * 60)]

\* Date.parse: the time value the composers denote, NaN when one of them
\* rejects its components or the time is out of range.
DateFrom(st) ==
  LET d == DayWrite(st)
      t == TimeWrite(st)
      z == ZoneWrite(st)
      seconds == t.seconds - (z.offset % SecondsPerDay)
      day == DaysFromCivil(d.year, d.month, 1) + d.day - 1
               - z.offset \div SecondsPerDay + seconds \div SecondsPerDay
  IN  IF st.failed \/ ~d.ok \/ ~t.ok \/ ~z.ok \/ d.year > MaxYear THEN InvalidDate
      ELSE IF ~InRange(day, seconds % SecondsPerDay, t.ms) THEN InvalidDate
      ELSE DateOf(day, seconds % SecondsPerDay, t.ms)

\* new Date(text) for a string.
NewDate(text) == DateFrom(ParseTokens(Scan(Flatten(text), 1)))

----------------------------------------------------------------------------
(* AuthManager (auth.js), as the specification describes it: the mode, the *)
(* configuration it was constructed from and the token state.              *)

AuthModes == {"ClientCredentials", "ClientProvidedToken", "Interactive", "Certificate"}

\* new AuthManager(config): the token state starts from the configured
\* access token, without expiry.
NewAuthManager(id, config) ==
  [t |-> "AuthManager", id |-> id, config |-> config,
   accessToken |-> IF config.accessToken = "" THEN <<>> ELSE <<config.accessToken>>,
   expiresOn |-> Undefined]

\* getAuthMode(): the active mode; authManager?.getAuthMode() is undefined
\* when no manager is held.
GetAuthMode(m) == IF Nullish(m) THEN Undefined ELSE Str(<<m.config.mode>>)

\* The fields a mode requires: ClientCredentials tenant, client and
\* secret; Certificate tenant, client and certificate path; the other
\* modes none.
MissingRequired(config) ==
  CASE config.mode = "ClientCredentials" ->
         config.tenantId = "" \/ config.clientId = "" \/ config.clientSecret = ""
    [] config.mode = "Certificate" ->
         config.tenantId = "" \/ config.clientId = "" \/ config.certificatePath = ""
    [] OTHER -> FALSE

\* initialize(): fails when a required field is missing; may fail on the
\* network round trip of the modes that acquire a token eagerly.
InitializeOutcomes(m) ==
  IF MissingRequired(m.config)
  THEN { Throws(ErrorOf(<<"ConfigurationError">>, 0)) }
  ELSE IF m.config.mode \in {"ClientCredentials", "Certificate"}
  THEN { Returns(Undefined), Throws(ErrorOf(<<"AuthenticationError">>, 0)) }
  ELSE { Returns(Undefined) }

\* updateAccessToken(token, expiry): valid in ClientProvidedToken mode
\* only, where it replaces the held token and expiry together.
UpdateAccessToken(m, token, expiry) ==
  IF m.config.mode = "ClientProvidedToken"
  THEN Returns([m EXCEPT !.accessToken = token, !.expiresOn = expiry])
  ELSE Throws(ErrorOf(<<"InvalidOperationError">>, 0))

\* GetTokenStatus that reports the token expired from the instant of
\* its expiry on: isExpired = (at >= expiry).
GetTokenStatusFromExpiryOn(m, at) ==
  IF m.config.mode = "ClientProvidedToken" /\ m.expiresOn.t = "date"
  THEN Obj([isExpired |-> Bool(m.expiresOn.valid /\ ~Later(m.expiresOn, DateAt(at))),
            expiresOn |-> m.expiresOn])
  ELSE Obj([isExpired |-> Bool(FALSE)])

\* getTokenStatus() at time `at`: isExpired = (at > expiry), false when
\* there is no expiry or the expiry is not known to the manager.  A
\* comparison with the NaN time of an Invalid Date is false.
GetTokenStatus(m, at) ==
  IF m.config.mode = "ClientProvidedToken" /\ m.expiresOn.t = "date"
  THEN Obj([isExpired |-> Bool(m.expiresOn.valid /\ Later(DateAt(at), m.expiresOn)),
            expiresOn |-> m.expiresOn])
  ELSE Obj([isExpired |-> Bool(FALSE)])

\* Client.initWithMiddleware({ authProvider }): a Graph client that asks
\* manager `id` for its tokens.
NewClient(id) == [t |-> "Client", authProvider |-> id]

\* new GraphApiHelper(graphClient, authManager, useGraphBeta, version)
NewGraphApiHelper(client, m, useGraphBeta, defaultGraphApiVersion) ==
  [t |-> "GraphApiHelper", graphClient |-> client,
   authManager |-> IF Nullish(m) THEN 0 ELSE m.id,
   useGraphBeta |-> useGraphBeta, defaultGraphApiVersion |-> defaultGraphApiVersion]

\* The helper instance as the dispatch methods see it: which of its
\* collaborators it holds.
Collaborators(a) ==
  [graphClient |-> ~Nullish(a.graphClient), authManager |-> a.authManager # 0,
   useGraphBeta |-> a.useGraphBeta, defaultGraphApiVersion |-> a.defaultGraphApiVersion]

----------------------------------------------------------------------------
(* The entry point: main(), lines 48-158 of the main module.               *)

\* process.env of the runs considered: each mode switch unset or 'true',
\* each credential field and ACCESS_TOKEN unset or set, in every
\* combination.  USE_GRAPH_BETA is left unset.
Envs ==
  [USE_CERTIFICATE : {"", "true"}, USE_INTERACTIVE : {"", "true"},
   USE_CLIENT_TOKEN : {"", "true"}, ACCESS_TOKEN : {"", "tok0"},
   TENANT_ID : {"", "tenant1"}, CLIENT_ID : {"", "client1"},
   CLIENT_SECRET : {"", "secret1"}, CERTIFICATE_PATH : {"", "/cert.pem"}]

\* Lines 29-30.
useGraphBeta == TRUE

defaultGraphApiVersion == "beta"

\* Lines 100-101: the well-known tenant and client of interactive mode.
LokkaDefaultTenantId == "common"

LokkaClientId == "lokka-client-id"

\* Lines 58-62: the mode switches that are on.
EnabledModes(e) ==
  { f \in {"USE_CLIENT_TOKEN", "USE_INTERACTIVE", "USE_CERTIFICATE"} : e[f] = "true" }

\* SelectAuthMode that looks at the credentials first: complete client
\* credentials win over a mode switch.
SelectAuthModeCredentialsFirst(e) ==
  IF e.TENANT_ID # "" /\ e.CLIENT_ID # "" /\ e.CLIENT_SECRET # ""
  THEN "ClientCredentials"
  ELSE IF e.USE_CLIENT_TOKEN = "true" THEN "ClientProvidedToken"
  ELSE IF e.USE_INTERACTIVE = "true" THEN "Interactive"
  ELSE IF e.USE_CERTIFICATE = "true" THEN "Certificate"
  ELSE "Interactive"

\* Lines 70-90.
SelectAuthMode(e) ==
  IF e.USE_CLIENT_TOKEN = "true" THEN "ClientProvidedToken"
  ELSE IF e.USE_INTERACTIVE = "true" THEN "Interactive"
  ELSE IF e.USE_CERTIFICATE = "true" THEN "Certificate"
  ELSE IF e.TENANT_ID # "" /\ e.CLIENT_ID # "" /\ e.CLIENT_SECRET # ""
  THEN "ClientCredentials"
  ELSE "Interactive"

\* Lines 95-134: the AuthConfig main() builds.
AuthConfigOf(e, authMode) ==
  [mode |-> authMode,
   tenantId |-> IF authMode = "Interactive" /\ e.TENANT_ID = ""
                THEN LokkaDefaultTenantId ELSE e.TENANT_ID,
   clientId |-> IF authMode = "Interactive" /\ e.CLIENT_ID = ""
                THEN LokkaClientId ELSE e.CLIENT_ID,
   clientSecret |-> e.CLIENT_SECRET,
   accessToken |-> e.ACCESS_TOKEN,
   certificatePath |-> e.CERTIFICATE_PATH]

\* InvalidConfig that asks for the client secret only.
InvalidConfigSecretOnly(config) ==
  config.mode = "ClientCredentials" /\ config.clientSecret = ""

\* Lines 114-122: the validation of main().
InvalidConfig(config) ==
  \/ /\ config.mode = "ClientCredentials"
     /\ (config.tenantId = "" \/ config.clientId = "" \/ config.clientSecret = "")
  \/ /\ config.mode = "Certificate"
     /\ (config.tenantId = "" \/ config.clientId = "" \/ config.certificatePath = "")

\* NeedsInitialize that initializes in every mode, token or not.
NeedsInitializeAlways(authMode, initialAccessToken) == TRUE

\* Line 139: authMode !== AuthMode.ClientProvidedToken || initialAccessToken
NeedsInitialize(authMode, initialAccessToken) ==
  authMode # "ClientProvidedToken" \/ initialAccessToken # ""

\* Lines 48-157: main() up to its first await: authManager.initialize()
\* (line 140), or server.connect(transport) (line 157) when the manager
\* is not initialized at startup.  A throw ends the process (lines
\* 160-164).
MainEnter(e) ==
  IF Cardinality(EnabledModes(e)) > 1
  THEN [main |-> MainAt("failed", "",
                        ErrorOf(<<"Multiple authentication modes enabled. Please enable only one of USE_CLIENT_TOKEN, USE_INTERACTIVE, or USE_CERTIFICATE.">>, 0)),
        authManager |-> Null]
  ELSE
    LET authMode == SelectAuthMode(e)
        config == AuthConfigOf(e, authMode)
    IN  IF InvalidConfig(config)
        THEN [main |-> MainAt("failed", authMode,
                              ErrorOf(IF authMode = "ClientCredentials"
                                      THEN <<"Client credentials mode requires explicit TENANT_ID, CLIENT_ID, and CLIENT_SECRET environment variables">>
                                      ELSE <<"Certificate mode requires explicit TENANT_ID, CLIENT_ID, and CERTIFICATE_PATH environment variables">>, 0)),
              authManager |-> Null]
        ELSE [main |-> MainAt(IF NeedsInitialize(authMode, e.ACCESS_TOKEN)
                              THEN "initialize" ELSE "connect", authMode, Undefined),
              authManager |-> NewAuthManager(1, config)]

\* What server.connect(transport) may produce: the transport is started,
\* or it fails.
ConnectOutcomes ==
  { Returns(Undefined), Throws(ErrorOf(<<"transport failed">>, 0)) }

\* The environments of the server runs in which tools are called: nothing
\* set, client-token mode without and with an initial token, and complete
\* client credentials.
ServerEnvs ==
  { NoEnv,
    [NoEnv EXCEPT !.USE_CLIENT_TOKEN = "true"],
    [NoEnv EXCEPT !.USE_CLIENT_TOKEN = "true", !.ACCESS_TOKEN = "tok0"],
    [NoEnv EXCEPT !.TENANT_ID = "tenant1", !.CLIENT_ID = "client1",
                  !.CLIENT_SECRET = "secret1"] }

InitServer ==
  /\ helper \in { h \in Helpers : ~h.graphClient /\ ~h.authManager }
  /\ call = IdleFrame
  /\ probe = NoProbe
  /\ NoCalls
  /\ \E e \in ServerEnvs : ServerLoaded(e)

\* The process is started in any environment.
InitStartup ==
  /\ helper \in { h \in Helpers : ~h.graphClient /\ ~h.authManager }
  /\ call = IdleFrame
  /\ probe = NoProbe
  /\ NoCalls
  /\ \E e \in Envs : ServerLoaded(e)

\* main() runs to its first await.
MainStarts ==
  /\ main.pc = "start"
  /\ main' = MainEnter(env).main
  /\ authManager' = MainEnter(env).authManager
  /\ managers' = IF Nullish(MainEnter(env).authManager) THEN 0 ELSE 1
  /\ UNCHANGED <<helper, call, probe, concVars,
                 env, graphClient, apiHelper, tools, now, injected>>

\* Lines 140-157: authManager.initialize() settles; on success the Graph
\* client and the API helper are built and main() calls
\* server.connect(transport).
InitializeSettles ==
  /\ main.pc = "initialize"
  /\ \E o \in InitializeOutcomes(authManager) :
        IF o.k = "throw"
        THEN /\ main' = MainAt("failed", main.authMode, o.v)
             /\ UNCHANGED <<graphClient, apiHelper>>
        ELSE /\ main' = MainAt("connect", main.authMode, Undefined)
             /\ graphClient' = NewClient(authManager.id)
             /\ apiHelper' = NewGraphApiHelper(NewClient(authManager.id), authManager,
                                               useGraphBeta, defaultGraphApiVersion)
  /\ UNCHANGED <<helper, call, probe, concVars,
                 env, authManager, tools, now, injected, managers>>

\* Lines 157-164: server.connect(transport) settles.  The server takes
\* requests once it resolved; a rejection ends the process with the slots
\* as they are.
ConnectSettles ==
  /\ main.pc = "connect"
  /\ \E o \in ConnectOutcomes :
        main' = IF o.k = "throw" THEN MainAt("failed", main.authMode, o.v)
                ELSE MainAt("serving", main.authMode, Undefined)
  /\ UNCHANGED <<helper, call, probe, concVars,
                 env, authManager, graphClient, apiHelper, tools, now, injected, managers>>

NextStartup ==
  \/ MainStarts
  \/ InitializeSettles
  \/ ConnectSettles

SpecStartup == InitStartup /\ [][NextStartup]_vars

----------------------------------------------------------------------------
(* Tool results and the frames of the handlers.                            *)

\* { content: [{ type: "text", text }] }
TextResult(text) == [isError |-> FALSE, text |-> text, json |-> Undefined]

\* { content: [{ type: "text", text }], isError: true }
ErrorResult(text) == [isError |-> TRUE, text |-> text, json |-> Undefined]

\* A result whose text is JSON.stringify(v); json keeps v for inspection.
JsonResult(v, isError) == [isError |-> isError, text |-> Stringify(v), json |-> v]

\* The handler of tool `name` is called with `args`.
Invoked(name, args) == [IdleTool EXCEPT !.name = name, !.args = args, !.pc = "running"]

\* The handler returned.
Done(t, result) == [t EXCEPT !.pc = "done", !.result = result]

\* The handler threw: the promise it returned is rejected.
Rejects(t, reason) == [t EXCEPT !.pc = "rejected", !.reason = reason]

\* The handler is suspended on await `pc`.
Awaits(t, pc) == [t EXCEPT !.pc = pc]

\* The handler ends as `outcome` says.
Settle(t, outcome) ==
  IF outcome.k = "throw" THEN Rejects(t, outcome.v) ELSE Done(t, outcome.v)

ToolDone(name, args, result) == Done(Invoked(name, args), result)

ToolAwaits(name, args, pc) == Awaits(Invoked(name, args), pc)

\* The three slots, as a handler reads and writes them through its context.
Slots == [authManager |-> authManager, graphClient |-> graphClient, apiHelper |-> apiHelper]

\* No handler is running on request t.
Settled(t) == t.pc \in {"idle", "done", "rejected"}

\* The server is connected and can take one more request.  The handlers
\* are async functions the server calls per request: a request that
\* arrives while a handler is suspended is handled at once.
Accepting == main.pc = "serving" /\ \E h \in Handlers : Settled(tools[h])

\* The requests in flight: the record of a settled request is kept until
\* the next step of a handler and dropped then.
InFlight == [h \in Handlers |-> IF Settled(tools[h]) THEN IdleTool ELSE tools[h]]

\* The requests once request t has arrived: t is in flight or settled.
Taken(t) ==
  LET free == CHOOSE h \in Handlers :
                /\ Settled(tools[h])
                /\ \A g \in Handlers : Settled(tools[g]) => h <= g
  IN  [InFlight EXCEPT ![free] = t]

\* The catch of an auth tool: `${prefix}${error.message}`.  Reading the
\* message of null or undefined throws out of the catch.
CatchMessage(prefix, error) ==
  IF Nullish(error) THEN Throws(TypeErrorOf(error, "message"))
  ELSE Returns(ErrorResult(prefix \o MessageProperty(error)))

----------------------------------------------------------------------------
(* set-access-token and get-auth-status, auth-tools.ts lines 25-118.       *)

\* The expiresOn argument: absent, empty, text that is no date, an ISO
\* time, and the epoch in the legacy form with a form feed for a space.
ExpiresOnInputs ==
  { Undefined, Str(<<>>), Str(<<"tomorrow">>), Str(IsoAt(1)),
    Str(<<"1\fJan 1970">>) }

SetAccessTokenArgs ==
  [accessToken : { <<"tokA">> }, expiresOn : ExpiresOnInputs]

\* The date texts of the inputs and of the clock, each parsed once.
KnownDates ==
  [text \in { e.s : e \in { x \in ExpiresOnInputs : x.t = "string" } }
             \cup { IsoAt(s) : s \in 0..MaxClock }
     |-> NewDate(text)]

\* new Date(text), read from KnownDates where the text is listed.
DateOfText(text) ==
  IF text \in DOMAIN KnownDates THEN KnownDates[text] ELSE NewDate(text)

\* Line 34: expiresOn ? new Date(expiresOn) : undefined
ExpirationDate(expiresOn) ==
  IF Truthy(expiresOn) THEN DateOfText(expiresOn.s) ELSE Undefined

\* What the handler found and did: the slots as it leaves them, how it
\* ended, and whether it called updateAccessToken.
Handled(slots, outcome, updated) ==
  [authManager |-> slots.authManager, graphClient |-> slots.graphClient,
   apiHelper |-> slots.apiHelper, outcome |-> outcome, updated |-> updated]

\* Lines 40-61, after updateAccessToken ended as `updated` says: the
\* Graph client and the API helper are rebuilt around the same manager.
\* A throw of updateAccessToken lands in the catch of line 71.
Rebuild(slots, updated) ==
  IF updated.k = "throw"
  THEN Handled(slots, CatchMessage(<<"Error setting access token: ">>, updated.v), TRUE)
  ELSE Handled([authManager |-> updated.v,
                graphClient |-> NewClient(updated.v.id),
                apiHelper |-> NewGraphApiHelper(NewClient(updated.v.id), updated.v,
                                                useGraphBeta, defaultGraphApiVersion)],
               Returns(TextResult(<<"Access token updated successfully. You can now make Microsoft Graph requests on behalf of the authenticated user.">>)),
               TRUE)

\* Lines 38-61: the token is replaced and the client and the helper are
\* rebuilt.
SetTokenAndRebuild(slots, args) ==
  Rebuild(slots, UpdateAccessToken(slots.authManager, args.accessToken,
                                   ExpirationDate(args.expiresOn)))

\* SetAccessTokenHandler without the mode test of line 37: any held
\* manager is updated.
SetAccessTokenHandlerAnyMode(slots, args) ==
  IF Nullish(slots.authManager)
  THEN Handled(slots,
               CatchMessage(<<"Error setting access token: ">>,
                            TypeErrorOf(slots.authManager, "updateAccessToken")),
               FALSE)
  ELSE SetTokenAndRebuild(slots, args)

\* Lines 32-81.
SetAccessTokenHandler(slots, args) ==
  IF GetAuthMode(slots.authManager) = Str(<<"ClientProvidedToken">>)
  THEN SetTokenAndRebuild(slots, args)
  ELSE Handled(slots,
               Returns(ErrorResult(<<"Error: MCP Server is not configured for client-provided token authentication. Set USE_CLIENT_TOKEN=true in environment variables.">>)),
               FALSE)

\* The token status as JSON.stringify renders it.
StatusToJSON(status) == Obj([k \in DOMAIN status.p |-> DateToJSON(status.p[k])])

\* Lines 96-107: the result, with the clock read when it is built.
AuthStatusResult(authMode, isReady, tokenStatus, at) ==
  JsonResult(Obj([authMode |-> authMode,
                  isReady |-> isReady,
                  supportsTokenUpdates |-> Bool(authMode = Str(<<"ClientProvidedToken">>)),
                  tokenStatus |-> StatusToJSON(tokenStatus),
                  timestamp |-> Str(IsoAt(at))]),
             FALSE)

\* Lines 89-94: the handler up to its await.  With a manager it calls
\* getTokenStatus() at time `at` and is suspended on the promise; without
\* one it awaits nothing and returns.
GetAuthStatusEnter(m, at) ==
  LET authMode == IF Truthy(GetAuthMode(m)) THEN GetAuthMode(m)
                  ELSE Str(<<"Not initialized">>)
      isReady == Bool(m # Null)
      t == Invoked("get-auth-status", <<>>)
  IN  IF Truthy(m)
      THEN [Awaits(t, "gas:status") EXCEPT
              !.locals = [authMode |-> authMode, isReady |-> isReady,
                          tokenStatus |-> GetTokenStatus(m, at)]]
      ELSE Done(t, AuthStatusResult(authMode, isReady,
                                    Obj([isExpired |-> Bool(FALSE)]), at))

\* Lines 94-116: resumed at time `at` with what getTokenStatus() settled
\* to.
GetAuthStatusExit(t, outcome, at) ==
  IF outcome.k = "throw"
  THEN Settle(t, CatchMessage(<<"Error checking auth status: ">>, outcome.v))
  ELSE Done(t, AuthStatusResult(t.locals.authMode, t.locals.isReady, outcome.v, at))

\* set-access-token is invoked and handled (the handler has no await).
SetAccessToken ==
  /\ Accepting
  /\ \E args \in SetAccessTokenArgs :
        LET r == SetAccessTokenHandler(Slots, args)
        IN  /\ authManager' = r.authManager
            /\ graphClient' = r.graphClient
            /\ apiHelper' = r.apiHelper
            /\ tools' = Taken(Settle(Invoked("set-access-token", args), r.outcome))
            /\ injected' = IF r.updated
                           THEN [accessToken |-> args.accessToken,
                                 expiresOn |-> args.expiresOn, count |-> 1]
                           ELSE injected
  /\ UNCHANGED <<helper, call, probe, concVars, env, main, now, managers>>

\* get-auth-status is invoked: the handler runs to its await.
GetAuthStatus ==
  /\ Accepting
  /\ tools' = Taken([GetAuthStatusEnter(authManager, now) EXCEPT
                       !.asked = [at |-> now, injected |-> injected]])
  /\ UNCHANGED <<helper, call, probe, concVars,
                 env, authManager, graphClient, apiHelper, main, now, injected, managers>>

\* getTokenStatus() of request h settles (line 94): the handler reads the
\* clock and returns.
GetAuthStatusReturns(h) ==
  /\ tools[h].pc = "gas:status"
  /\ tools' = [InFlight EXCEPT
                 ![h] = GetAuthStatusExit(@, Returns(tools[h].locals.tokenStatus), now)]
  /\ UNCHANGED <<helper, call, probe, concVars,
                 env, authManager, graphClient, apiHelper, main, now, injected, managers>>

\* A second passes.
Tick ==
  /\ main.pc = "serving"
  /\ now < MaxClock
  /\ now' = now + 1
  /\ UNCHANGED <<helper, call, probe, concVars,
                 env, authManager, graphClient, apiHelper, main, tools, injected, managers>>

----------------------------------------------------------------------------
(* call-graph-api, the handler of the API tools module, lines 35-155.      *)

\* The arguments of the invocations considered: a Graph get with and
\* without fetchAll, a resource-management aggregation with and without
\* apiVersion, a resource-management get of one page, and a
\* resource-management delete.
CallGraphApiArgs ==
  { [apiType |-> "graph", path |-> <<"/users">>, method |-> "get",
     apiVersion |-> <<>>, graphApiVersion |-> defaultGraphApiVersion, fetchAll |-> fa]
    : fa \in BOOLEAN }
    \cup { [apiType |-> "azure", path |-> <<"/resourcegroups">>, method |-> "get",
            apiVersion |-> v, graphApiVersion |-> defaultGraphApiVersion, fetchAll |-> TRUE]
           : v \in { <<>>, <<"2021-04-01">> } }
    \cup { [apiType |-> "azure", path |-> <<"/resourcegroups">>, method |-> m,
            apiVersion |-> <<"2021-04-01">>, graphApiVersion |-> defaultGraphApiVersion,
            fetchAll |-> FALSE]
           : m \in {"get", "delete"} }

\* Line 59.
ToolGraphApiVersion(args) == IF ~useGraphBeta THEN "v1.0" ELSE args.graphApiVersion

\* Lines 76-84.
GraphParamsOf(args) ==
  [path |-> args.path, method |-> args.method, queryParams |-> <<>>,
   body |-> Undefined, graphApiVersion |-> ToolGraphApiVersion(args),
   fetchAll |-> args.fetchAll, consistencyLevel |-> <<>>]

\* Lines 99-107.
AzureParamsOf(args) ==
  [path |-> args.path, method |-> args.method, apiVersion |-> args.apiVersion,
   subscriptionId |-> <<>>, queryParams |-> <<>>, body |-> Undefined,
   fetchAll |-> args.fetchAll]

\* An Error that carries the body of a response, as the errors of the
\* Graph SDK do.
WithBody(error, body) == error @@ [body |-> body]

\* error.body and error.statusCode for an error that is not nullish: the
\* property of an Error or of a plain object, undefined on any other
\* value.  An Error carries a body when the record has one.
BodyOf(e) ==
  CASE e.t = "error" -> IF "body" \in DOMAIN e THEN e.body ELSE Undefined
    [] OTHER -> Get(e, "body")

StatusCodeProperty(e) ==
  CASE e.t = "error" -> IF e.statusCode # 0 THEN Num(e.statusCode) ELSE Undefined
    [] OTHER -> Get(e, "statusCode")

\* Lines 132-154: the catch of the handler.  Reading the body of null or
\* undefined throws out of the catch (line 141).
ToolCatch(args, error) ==
  IF Nullish(error) THEN Throws(TypeErrorOf(error, "body"))
  ELSE
    LET body == BodyOf(error)
        statusCode == StatusCodeProperty(error)
    IN  Returns(JsonResult(
          Obj([error |-> Str(MessageOf(error)),
               statusCode |-> IF Truthy(statusCode) THEN statusCode ELSE Str(<<"N/A">>),
               errorBody |-> IF ~Truthy(body) THEN Str(<<"N/A">>)
                             ELSE IF body.t = "string" THEN body
                             ELSE Str(Stringify(body)),
               attemptedBaseUrl |-> IF args.apiType = "graph"
                                    THEN Str(<<"https://graph.microsoft.com/",
                                               ToolGraphApiVersion(args)>>)
                                    ELSE Str(AzureBaseUrl)]),
          TRUE))

\* CallGraphApiEnter without the test of lines 94-96: a
\* resource-management request is dispatched with whatever apiVersion it
\* has.
CallGraphApiEnterAnyVersion(a, args) ==
  LET t == Invoked("call-graph-api", args)
  IN  IF ~Truthy(a)
      THEN Settle(t, ToolCatch(args, ErrorOf(<<"API helper not initialized">>, 0)))
      ELSE IF args.apiType = "graph"
      THEN [Awaits(t, "dispatch") EXCEPT
              !.call = GraphEnter(Collaborators(a), GraphParamsOf(args))]
      ELSE [Awaits(t, "dispatch") EXCEPT
              !.call = AzureEnter(Collaborators(a), AzureParamsOf(args))]

\* Lines 57-107: the handler up to its await.  Without a helper, or
\* without apiVersion for the resource-management backend, it throws
\* before any dispatch.
CallGraphApiEnter(a, args) ==
  LET t == Invoked("call-graph-api", args)
  IN  IF ~Truthy(a)
      THEN Settle(t, ToolCatch(args, ErrorOf(<<"API helper not initialized">>, 0)))
      ELSE IF args.apiType = "graph"
      THEN [Awaits(t, "dispatch") EXCEPT
              !.call = GraphEnter(Collaborators(a), GraphParamsOf(args))]
      ELSE IF args.apiVersion = <<>>
      THEN Settle(t, ToolCatch(args, ErrorOf(<<"API version is required for Azure Resource Management queries">>, 0)))
      ELSE [Awaits(t, "dispatch") EXCEPT
              !.call = AzureEnter(Collaborators(a), AzureParamsOf(args))]

MoreResultsNote ==
  <<"\n\nNote: More results are available. To retrieve all pages, add the parameter 'fetchAll: true' to your request.">>

\* Lines 86-130: resumed with the settled promise of the dispatch call.
CallGraphApiExit(args, outcome) ==
  IF outcome.state = "rejected"
  THEN ToolCatch(args, outcome.reason)
  ELSE IF Truthy(outcome.value.error)
  THEN ToolCatch(args, ErrorOf(outcome.value.error.s, 0))
  ELSE
    LET responseData == outcome.value.data
    IN  Returns(
          [isError |-> FALSE,
           text |-> <<"Result for ", args.apiType, " API (">>
                      \o (IF args.apiType = "graph" THEN <<ToolGraphApiVersion(args)>>
                          ELSE args.apiVersion)
                      \o <<") - ", args.method, " ">> \o args.path \o <<":\n\n">>
                      \o Stringify(responseData)
                      \o (IF /\ ~args.fetchAll
                             /\ args.method = "get"
                             /\ hasMorePages(responseData, args.apiType)
                          THEN MoreResultsNote ELSE <<>>),
           json |-> responseData])

\* What the await the dispatch frame is suspended on may produce while a
\* tool is handled: a token or none; the pages and Graph payloads of
\* ConcurrentOutcomes; for the single round trip a payload with or
\* without a successor, no content, or an error.
ToolOutcomes(c) ==
  CASE c.pc \in {"az:getToken", "az:pageToken"} ->
         { Returns(Obj([token |-> Str(<<"t1">>)])), Returns(Null) }
    [] c.pc = "az:fetch" ->
         { Returns(ResponseOf(st)) : st \in {200, 204, 404} }
    [] c.pc = "az:text" ->
         { Returns(r.body) : r \in
             { x \in { y \in AzureResponses(c.url) : y.status = c.status } :
                 \/ x.status = 204
                 \/ x.status = 404 /\ x.body = InvalidBody
                 \/ x.status = 200 /\ x.body = JsonBody(Obj([value |-> Arr(<<Items.a>>)]))
                 \/ x.status = 200 /\ x.body = JsonBody(Obj([value |-> Arr(<<Items.a>>),
                                                             nextLink |-> Str(NextPageUrl)])) } }
    [] OTHER -> ConcurrentOutcomes(c)

\* Calls of a dispatch method the handlers may have in flight at once
\* (SpecConcurrent covers calls that interleave).
MaxDispatches == 1

\* The call-graph-api requests suspended on a dispatch call.
Dispatching == { h \in Handlers : tools[h].pc = "dispatch" }

\* call-graph-api is invoked: the handler runs to its await.
CallGraphApiTool ==
  /\ Accepting
  /\ Cardinality(Dispatching) < MaxDispatches
  /\ \E args \in CallGraphApiArgs : tools' = Taken(CallGraphApiEnter(apiHelper, args))
  /\ UNCHANGED <<helper, call, probe, concVars, env, authManager, graphClient,
                 apiHelper, main, now, injected, managers>>

\* An await of the dispatch call of request h settles.
DispatchSettles(h) ==
  /\ tools[h].pc = "dispatch"
  /\ \E o \in ToolOutcomes(tools[h].call) :
        tools' = [InFlight EXCEPT ![h].call = Resume(@, o)]
  /\ UNCHANGED <<helper, call, probe, concVars, env, authManager, graphClient,
                 apiHelper, main, now, injected, managers>>

\* The dispatch call of request h has settled: the handler formats its
\* result.
CallGraphApiReturns(h) ==
  /\ tools[h].pc = "dispatch"
  /\ tools[h].call.pc = "done"
  /\ tools' = [InFlight EXCEPT
                 ![h] = Settle(@, CallGraphApiExit(tools[h].args, tools[h].call.outcome))]
  /\ UNCHANGED <<helper, call, probe, concVars, env, authManager, graphClient,
                 apiHelper, main, now, injected, managers>>

----------------------------------------------------------------------------
(* add-graph-permission, auth-tools.ts lines 121-322.                      *)

\* AuthManager instances one process may construct.
MaxManagers == 2

\* A scope is the sequence of the pieces of its text.
ScopesInputs ==
  { <<>>,
    << <<"User", ".", "Read">> >>,
    << <<"everything">> >>,
    << <<"Mail", ".", "Read">>, <<" ", "User", ".", "Read">> >>,
    << <<"\f", "User", ".", "Read">> >> }

\* Line 181: !scope.includes('.') || scope.trim() !== scope
InvalidScope(scope) ==
  LET s == Flatten(scope)
  IN  \/ \A i \in 1..Len(s) : Char(s, i) # "."
      \/ IsWhiteSpace(Char(s, 1))
      \/ IsWhiteSpace(Char(s, Len(s)))

RECURSIVE Join(_, _)
\* texts.join(separator)
Join(texts, separator) ==
  IF texts = <<>> THEN <<>>
  ELSE IF Len(texts) = 1 THEN Head(texts)
  ELSE Head(texts) \o separator \o Join(Tail(texts), separator)

\* What getToken of the interactive and device-code credentials may
\* produce: a token, nothing, or a throw.
CredentialOutcomes ==
  { Returns(Obj([token |-> Str(<<"t1">>)])), Returns(Null),
    Throws(ErrorOf(<<"authentication cancelled">>, 0)) }

\* The character U+201A of lines 146 and 152, which a string of this
\* notation cannot hold, as a piece of its own.
LowQuote == "U+201A"

\* Lines 146 and 152: scopes.map(scope => ...).join('\n   ')
ScopeList(scopes) ==
  Join([i \in 1..Len(scopes) |-> <<LowQuote, "Ä¢ ">> \o scopes[i]], <<"\n   ">>)

\* Lines 136-158: the text of the refusal outside interactive mode.
ModeErrorText(currentMode, clientId, scopes) ==
  <<"Error: add-graph-permission tool is only available in interactive authentication mode. Current mode: ">>
    \o currentMode \o <<".\n\n">>
    \o (CASE currentMode = <<"ClientCredentials">> ->
               <<"üìã To add permissions in Client Credentials mode:\n",
                 "1. Open the Microsoft Entra admin center (https://entra.microsoft.com)\n",
                 "2. Navigate to Applications > App registrations\n",
                 "3. Find your application">>
                 \o (IF clientId # "" THEN <<" (Client ID: ", clientId, ")">> ELSE <<>>)
                 \o <<"\n",
                      "4. Go to API permissions\n",
                      "5. Click \"Add a permission\" and select Microsoft Graph\n",
                      "6. Choose \"Application permissions\" and add the required scopes:\n",
                      "   ">>
                 \o ScopeList(scopes)
                 \o <<"\n",
                      "7. Click \"Grant admin consent\" to approve the permissions\n",
                      "8. Restart the MCP server to use the new permissions">>
          [] currentMode = <<"ClientProvidedToken">> ->
               <<"üìã To add permissions in Client Provided Token mode:\n",
                 "1. Obtain a new access token that includes the required scopes:\n",
                 "   ">>
                 \o ScopeList(scopes)
                 \o <<"\n",
                      "2. When obtaining the token, ensure these scopes are included in the consent prompt\n",
                      "3. Use the set-access-token tool to update the server with the new token\n",
                      "4. The new token will include the additional permissions">>
          [] OTHER ->
               <<"To use interactive permission requests, set USE_INTERACTIVE=true in environment variables and restart the server.">>)

\* Lines 127-202: the handler up to the await of line 202, in a process
\* with environment e.  Outside interactive mode, or with no or malformed
\* scopes, it returns an error;
\* otherwise it is suspended on the import of the credential classes,
\* the slots untouched.
AddGraphPermissionEnter(slots, args, e) ==
  LET m == slots.authManager
      t == Invoked("add-graph-permission", args)
      currentMode == IF Truthy(GetAuthMode(m)) THEN GetAuthMode(m).s
                     ELSE <<"Not initialized">>
      invalidScopes == SelectSeq(args.scopes, InvalidScope)
  IN  IF ~Truthy(m) \/ GetAuthMode(m) # Str(<<"Interactive">>)
      THEN Done(t, ErrorResult(ModeErrorText(currentMode, e.CLIENT_ID, args.scopes)))
      ELSE IF Len(args.scopes) = 0
      THEN Done(t, ErrorResult(<<"Error: At least one permission scope must be specified.">>))
      ELSE IF Len(invalidScopes) > 0
      THEN Done(t, ErrorResult(<<"Error: Invalid scope format detected: ">>
                                 \o Join(invalidScopes, <<", ">>)
                                 \o <<". Scopes should be in format like 'User.Read' or 'Mail.ReadWrite'.">>))
      ELSE Awaits(t, "agp:import")

\* Lines 311-320: the catch of the handler.
AddGraphPermissionCatch(slots, t, error) ==
  slots @@
  [tool |-> Settle(t, CatchMessage(<<"Error requesting additional permissions: ">>, error))]

\* Lines 202-228: resumed with the imported module, the handler clears
\* the manager and client slots and asks the browser credential for a
\* token.
AddGraphPermissionImported(slots, t, outcome) ==
  IF outcome.k = "throw" THEN AddGraphPermissionCatch(slots, t, outcome.v)
  ELSE [slots EXCEPT !.authManager = Null, !.graphClient = Null] @@
       [tool |-> Awaits(t, "agp:browser")]

\* Lines 195-197 and 260-265: the configuration of the fresh manager.
InteractiveConfig(e) ==
  [mode |-> "Interactive",
   tenantId |-> IF e.TENANT_ID = "" THEN LokkaDefaultTenantId ELSE e.TENANT_ID,
   clientId |-> IF e.CLIENT_ID = "" THEN LokkaClientId ELSE e.CLIENT_ID,
   clientSecret |-> "", accessToken |-> "", certificatePath |-> ""]

\* Lines 249-294: resumed with the token response.  Without a token the
\* handler returns an error; with one it installs a fresh manager, client
\* and helper, calls getTokenStatus() of the fresh manager at time `at`
\* and is suspended on the promise.
AddGraphPermissionFinish(slots, t, tokenResponse, e, id, at) ==
  IF ~Truthy(tokenResponse)
  THEN slots @@
       [tool |-> Done(t, ErrorResult(<<"Error: Failed to acquire access token with the requested scopes. Please check your permissions and try again.">>))]
  ELSE
    LET newAuthManager == NewAuthManager(id, InteractiveConfig(e))
        client == NewClient(id)
    IN  [authManager |-> newAuthManager,
         graphClient |-> client,
         apiHelper |-> NewGraphApiHelper(client, newAuthManager,
                                         useGraphBeta, defaultGraphApiVersion),
         tool |-> [Awaits(t, "agp:status") EXCEPT
                     !.locals = [tokenStatus |-> GetTokenStatus(newAuthManager, at)]]]

\* Lines 294-309: resumed at time `at` with the token status, the handler
\* reports it.
AddGraphPermissionExit(slots, t, outcome, at) ==
  IF outcome.k = "throw" THEN AddGraphPermissionCatch(slots, t, outcome.v)
  ELSE slots @@
       [tool |-> Done(t,
          JsonResult(Obj([message |-> Str(<<"Successfully acquired additional Microsoft Graph permissions with fresh authentication">>),
                          requestedScopes |-> Arr([i \in 1..Len(t.args.scopes) |->
                                                     Str(t.args.scopes[i])]),
                          tokenStatus |-> StatusToJSON(outcome.v),
                          note |-> Str(<<"A fresh sign-in was performed to ensure the new permissions are properly granted">>),
                          timestamp |-> Str(IsoAt(at))]),
                     FALSE))]

\* The add-graph-permission requests in flight.
Reauthenticating ==
  { h \in Handlers : tools[h].name = "add-graph-permission" /\ ~Settled(tools[h]) }

\* add-graph-permission is invoked: the handler runs to its first await.
AddGraphPermission ==
  /\ Accepting
  /\ managers + Cardinality(Reauthenticating) < MaxManagers
  /\ \E args \in [scopes : ScopesInputs] :
        tools' = Taken([AddGraphPermissionEnter(Slots, args, env) EXCEPT !.before = Slots])
  /\ UNCHANGED <<helper, call, probe, concVars, env, authManager, graphClient,
                 apiHelper, main, now, injected, managers>>

\* The handler of request h goes on with what r says, constructing a
\* manager when r installs one.
AddGraphPermissionGoesOn(h, r) ==
  /\ authManager' = r.authManager
  /\ graphClient' = r.graphClient
  /\ apiHelper' = r.apiHelper
  /\ tools' = [InFlight EXCEPT ![h] = r.tool]
  /\ managers' = IF r.tool.pc = "agp:status" THEN managers + 1 ELSE managers
  /\ UNCHANGED <<helper, call, probe, concVars, env, main, now, injected>>

\* The import of line 202 settles.
ImportSettles(h) ==
  /\ tools[h].pc = "agp:import"
  /\ AddGraphPermissionGoesOn(
       h, AddGraphPermissionImported(Slots, tools[h], Returns(Undefined)))

\* getToken of the browser credential (line 228) settles; a throw falls
\* back to the device-code credential (lines 230-247).
BrowserSettles(h) ==
  /\ tools[h].pc = "agp:browser"
  /\ \E o \in CredentialOutcomes :
        IF o.k = "throw"
        THEN AddGraphPermissionGoesOn(h, Slots @@ [tool |-> Awaits(tools[h], "agp:device")])
        ELSE AddGraphPermissionGoesOn(
               h, AddGraphPermissionFinish(Slots, tools[h], o.v, env, managers + 1, now))

\* getToken of the device-code credential (line 246) settles.
DeviceSettles(h) ==
  /\ tools[h].pc = "agp:device"
  /\ \E o \in CredentialOutcomes :
        IF o.k = "throw"
        THEN AddGraphPermissionGoesOn(h, AddGraphPermissionCatch(Slots, tools[h], o.v))
        ELSE AddGraphPermissionGoesOn(
               h, AddGraphPermissionFinish(Slots, tools[h], o.v, env, managers + 1, now))

\* getTokenStatus() of the fresh manager (line 294) settles.
AddGraphPermissionReturns(h) ==
  /\ tools[h].pc = "agp:status"
  /\ tools' = [InFlight EXCEPT
                 ![h] = AddGraphPermissionExit(Slots, @,
                                               Returns(tools[h].locals.tokenStatus), now).tool]
  /\ UNCHANGED <<helper, call, probe, concVars, env, authManager, graphClient,
                 apiHelper, main, now, injected, managers>>

----------------------------------------------------------------------------
(* The server process.                                                     *)

NextServer ==
  \/ MainStarts
  \/ InitializeSettles
  \/ ConnectSettles
  \/ SetAccessToken
  \/ GetAuthStatus
  \/ CallGraphApiTool
  \/ AddGraphPermission
  \/ Tick
  \/ \E h \in Handlers :
       \/ GetAuthStatusReturns(h)
       \/ DispatchSettles(h)
       \/ CallGraphApiReturns(h)
       \/ ImportSettles(h)
       \/ BrowserSettles(h)
       \/ DeviceSettles(h)
       \/ AddGraphPermissionReturns(h)

SpecServer == InitServer /\ [][NextServer]_vars

----------------------------------------------------------------------------
(* Properties.                                                             *)

\* The frame is a finished callAzureApi aggregation (get with fetchAll).
AggregationDone ==
  /\ call.api = "azure"
  /\ call.pc = "done"
  /\ call.params.method = "get"
  /\ call.params.fetchAll

\* An aggregation, finished or not.
Aggregating ==
  /\ call.api = "azure"
  /\ call.params.method = "get"
  /\ call.params.fetchAll

HasValueArray(data) == ~Nullish(data) /\ IsArray(Get(data, "value"))

HasNextLink(data) == ~Nullish(data) /\ Truthy(Get(data, "nextLink"))

RECURSIVE ConcatValues(_)
\* The `value` arrays of a sequence of pages, concatenated in order.
ConcatValues(pages) ==
  IF pages = <<>> THEN <<>>
  ELSE Get(Head(pages).data, "value").items \o ConcatValues(Tail(pages))

\* Whether text sub occurs in text msg.
Contains(msg, sub) ==
  \E i \in 1..(Len(msg) - Len(sub) + 1) : SubSeq(msg, i, i + Len(sub) - 1) = sub

IsSuccess(outcome) ==
  /\ outcome.state = "fulfilled"
  /\ outcome.value.error = Undefined

IsFailure(outcome) ==
  /\ outcome.state = "fulfilled"
  /\ outcome.value.data = Null
  /\ outcome.value.error.t = "string"
  /\ Len(outcome.value.error.s) > 0

\* C1: a finished fetchAll aggregation whose pages all returned 2xx with a
\* `value` array, the last one without nextLink, returns
\* { allValues: L } with L the concatenation of the pages' `value` arrays
\* in the order the pages were fetched.
C1_AggregateIsConcatenation ==
  ( /\ AggregationDone
    /\ call.pages # <<>>
    /\ \A i \in 1..Len(call.pages) :
          Ok(call.pages[i].status) /\ HasValueArray(call.pages[i].data)
    /\ ~HasNextLink(call.pages[Len(call.pages)].data) )
  => call.outcome = Fulfilled(Success(Obj([allValues |-> Arr(ConcatValues(call.pages))])))

\* Two pages, [a] then [b, c], aggregated to [a, b, c].
C1_Witness ==
  /\ AggregationDone
  /\ Len(call.pages) = 2
  /\ Get(call.pages[1].data, "value") = Arr(<<Items.a>>)
  /\ Get(call.pages[2].data, "value") = Arr(<<Items.b, Items.c>>)
  /\ call.outcome = Fulfilled(Success(Obj([allValues |-> Arr(<<Items.a, Items.b, Items.c>>)])))

\* C2: a page with a non-2xx status ends the aggregation: it is the last
\* response received, no request was issued after it, and the call
\* returns a failure (data null, error set) whose message names the URL
\* that was requested and the status.
C2_FailedPageAborts ==
  Aggregating =>
    \A i \in 1..Len(call.pages) :
      ~Ok(call.pages[i].status) =>
        /\ i = Len(call.pages)
        /\ call.pc = "done"
        /\ call.nHttp = Len(call.pages)
        /\ IsFailure(call.outcome)
        /\ Contains(call.outcome.value.error.s, call.lastRequest.url)
        /\ Contains(call.outcome.value.error.s, <<ToString(call.pages[i].status)>>)

\* A first page with items and a successor, then a failing second page.
C2_Witness ==
  /\ AggregationDone
  /\ Len(call.pages) = 2
  /\ Get(call.pages[1].data, "value") = Arr(<<Items.a>>)
  /\ call.pages[2].status = 500
  /\ HasValueArray(call.pages[2].data)
  /\ IsFailure(call.outcome)

\* C3: callGraphApi and callAzureApi never reject, whatever the token
\* provider and the transport return or throw.
C3_NeverRejects == call.outcome.state # "rejected"

\* C4: every ApiResponse has exactly one of data/error populated: a
\* success has a non-null data and no error, a failure has data null and
\* a non-empty error.
C4_ExactlyOnePopulated ==
  (call.pc = "done" /\ call.outcome.state = "fulfilled") =>
    LET r == call.outcome.value
    IN  \/ ~Nullish(r.data) /\ r.error = Undefined
        \/ r.data = Null /\ r.error.t = "string" /\ Len(r.error.s) > 0

NotInitializedMessages ==
  { <<"Graph client not initialized">>, <<"Auth manager not initialized">> }

\* The collaborator the invoked method needs is missing.
Uninitialized ==
  \/ call.api = "graph" /\ ~helper.graphClient
  \/ call.api = "azure" /\ ~helper.authManager

\* C5: a dispatch call on a helper built without its collaborator returns
\* { data: null, error: "... not initialized" } at once, without raising,
\* and issues no token acquisition and no HTTP request.
C5_UninitializedFails ==
  Uninitialized =>
    /\ call.pc = "done"
    /\ call.outcome.state = "fulfilled"
    /\ call.outcome.value.data = Null
    /\ call.outcome.value.error.t = "string"
    /\ call.outcome.value.error.s \in NotInitializedMessages
    /\ call.nToken = 0
    /\ call.nHttp = 0

\* callAzureApi was invoked on a helper without an auth manager.
C5_Witness ==
  /\ call.api = "azure"
  /\ ~helper.authManager
  /\ call.pc = "done"
  /\ call.outcome.value.error = Str(<<"Auth manager not initialized">>)

\* The values JavaScript takes for false.
Falsy == { Undefined, Null, Str(<<>>), Num(0), Bool(FALSE) }

\* C6: hasMorePages(payload, kind) is a boolean, and is true exactly when
\* the payload is an object that carries a truthy value under
\* '@odata.nextLink' (kind graph) or 'nextLink' (kind azure); the other
\* backend's key does not count.
C6_HasMorePagesIffCursor ==
  probe.applied =>
    LET key == IF probe.apiType = "graph" THEN "@odata.nextLink" ELSE "nextLink"
        d == probe.data
    IN  /\ probe.result \in BOOLEAN
        /\ probe.result <=> ( /\ d.t = "object"
                              /\ key \in DOMAIN d.p
                              /\ d.p[key] \notin Falsy )

\* A payload with nextLink but no @odata.nextLink, asked for graph.
C6_Witness ==
  /\ probe.applied
  /\ probe.apiType = "graph"
  /\ probe.data.t = "object"
  /\ "nextLink" \in DOMAIN probe.data.p
  /\ probe.data.p["nextLink"] \notin Falsy
  /\ "@odata.nextLink" \notin DOMAIN probe.data.p
  /\ probe.result = FALSE

\* C7: when the first page of an aggregation returns 2xx with no `value`
\* array and no nextLink, the call returns an aggregate of exactly one
\* element, the page's payload.
C7_SinglePayloadWrapped ==
  ( /\ AggregationDone
    /\ Len(call.pages) = 1
    /\ Ok(call.pages[1].status)
    /\ ~HasValueArray(call.pages[1].data)
    /\ ~HasNextLink(call.pages[1].data) )
  => call.outcome = Fulfilled(Success(Obj([allValues |-> Arr(<<call.pages[1].data>>)])))

\* The part of C7 the code keeps: every first-page payload but the JSON
\* literal null (the empty object of an empty body and the raw-text
\* wrapper included) is wrapped as the single element.
C7_NonNullPayloadWrapped ==
  ( /\ AggregationDone
    /\ Len(call.pages) = 1
    /\ Ok(call.pages[1].status)
    /\ ~Nullish(call.pages[1].data)
    /\ ~HasValueArray(call.pages[1].data)
    /\ ~HasNextLink(call.pages[1].data) )
  => call.outcome = Fulfilled(Success(Obj([allValues |-> Arr(<<call.pages[1].data>>)])))

\* C8: every aggregation comes to an end, whatever nextLink values the
\* backend's pages carry.
C8_AggregationEnds == Aggregating ~> (call.pc = "done")

\* A page whose body is text that is not JSON.
Unparsable(page) == Len(page.body.text) > 0 /\ ~page.body.valid

\* C9 as claimed: a page whose body is not valid JSON aborts the
\* aggregation with a failure result, whatever its status.
C9_UnparsablePageFails ==
  Aggregating =>
    \A i \in 1..Len(call.pages) :
      Unparsable(call.pages[i]) => (call.pc = "done" /\ IsFailure(call.outcome))

\* C9 as amended: a page whose body is not valid JSON is taken as the
\* raw-text wrapper of its body and ends the aggregation; the call
\* returns a failure result exactly when that page's status is not 2xx,
\* and the aggregate otherwise.
C9_UnparsablePageEnds ==
  Aggregating =>
    \A i \in 1..Len(call.pages) :
      Unparsable(call.pages[i]) =>
        /\ call.pages[i].data = Obj([rawResponse |-> Str(call.pages[i].body.text)])
        /\ i = Len(call.pages)
        /\ call.pc = "done"
        /\ call.nHttp = Len(call.pages)
        /\ IF Ok(call.pages[i].status)
           THEN /\ IsSuccess(call.outcome)
                /\ call.outcome.value.data = Obj([allValues |-> Arr(call.allValues)])
           ELSE IsFailure(call.outcome)

\* A second page with a 200 status and an unparsable body: the call
\* succeeds with the items of the first page.
C9_Witness ==
  /\ AggregationDone
  /\ Len(call.pages) = 2
  /\ Unparsable(call.pages[2])
  /\ call.pages[2].status = 200
  /\ call.outcome = Fulfilled(Success(Obj([allValues |-> Arr(<<Items.a>>)])))

\* The frame is a finished single round trip of callAzureApi that got a
\* response.
SingleDone ==
  /\ call.api = "azure"
  /\ call.pc = "done"
  /\ ~(call.params.fetchAll /\ call.params.method = "get")
  /\ Len(call.pages) = 1

\* C10: in a single round trip a 2xx response whose body is not valid
\* JSON gives a success whose data wraps the unparsed text, and a 2xx
\* response with an empty body gives a success whose data is {}.
C10_SingleDegradesToRawText ==
  (SingleDone /\ Ok(call.pages[1].status)) =>
    LET body == call.pages[1].body
    IN  /\ Unparsable(call.pages[1]) =>
              call.outcome = Fulfilled(Success(Obj([rawResponse |-> Str(body.text)])))
        /\ Len(body.text) = 0 =>
              call.outcome = Fulfilled(Success(EmptyObj))

\* A post answered 200 with text that is not JSON.
C10_Witness ==
  /\ SingleDone
  /\ call.params.method = "post"
  /\ call.pages[1].status = 200
  /\ Unparsable(call.pages[1])
  /\ call.outcome.value.data = Obj([rawResponse |-> Str(InvalidBody.text)])

\* A delete answered 204 without a body.
C10_WitnessEmpty ==
  /\ SingleDone
  /\ call.pages[1].status = 204
  /\ call.outcome.value.data = EmptyObj

----------------------------------------------------------------------------
(* callGraphApi with method get.                                           *)

\* The frame is a callGraphApi get on a helper that holds a Graph client.
GraphGet(fetchAll) ==
  /\ call.api = "graph"
  /\ helper.graphClient
  /\ call.params.method = "get"
  /\ call.params.fetchAll = fetchAll

\* The frame is a finished callGraphApi get whose request resolved.
GraphGetResolved(fetchAll) ==
  /\ GraphGet(fetchAll)
  /\ call.pc = "done"
  /\ Len(call.pages) = 1

\* { '@odata.context': the page's context, value: the page's items or [] }
FirstPageOnly(page) ==
  Obj(("@odata.context" :> Get(page, "@odata.context"))
        @@ ("value" :> Arr(IF HasValueArray(page)
                           THEN Get(page, "value").items ELSE <<>>)))

\* C11: a callGraphApi get with fetchAll issues exactly one request,
\* whatever cursor the first page carries, and once the request has
\* resolved returns data = { '@odata.context': the first page's context,
\* value: the first page's items, or [] when it has no value array }.
C11_FetchAllIsFirstPage ==
  /\ GraphGet(TRUE) => call.nHttp = 1
  /\ GraphGetResolved(TRUE) =>
        call.outcome = Fulfilled(Success(FirstPageOnly(call.pages[1].data)))

\* The part of C11 the code keeps: one request, and the first page alone
\* whenever the request resolved with an object.
C11_ObjectPageIsFirstPage ==
  /\ GraphGet(TRUE) => call.nHttp = 1
  /\ (GraphGetResolved(TRUE) /\ ~Nullish(call.pages[1].data)) =>
        call.outcome = Fulfilled(Success(FirstPageOnly(call.pages[1].data)))

\* A first page with items and a cursor: returned without its cursor
\* after one request.
C11_ObjectPageWitness ==
  /\ GraphGetResolved(TRUE)
  /\ Truthy(Get(call.pages[1].data, "@odata.nextLink"))
  /\ call.nHttp = 1
  /\ call.outcome.value.data =
        Obj(("@odata.context" :> GraphContext) @@ ("value" :> Arr(<<Items.b, Items.c>>)))

\* C12: a callGraphApi get without fetchAll whose request resolved
\* returns the payload as it came, every item and the cursor included:
\* hasMorePages(data, 'graph') is true exactly when the payload carried a
\* truthy '@odata.nextLink'.
C12_SinglePageUnchanged ==
  GraphGetResolved(FALSE) =>
    LET page == call.pages[1].data
        data == call.outcome.value.data
    IN  /\ call.outcome = Fulfilled(Success(page))
        /\ HasValueArray(page) => Get(data, "value") = Get(page, "value")
        /\ hasMorePages(data, "graph")
              <=> ( /\ page.t = "object"
                    /\ "@odata.nextLink" \in DOMAIN page.p
                    /\ page.p["@odata.nextLink"] \notin Falsy )

\* A page of two items with a cursor, returned as it came.
C12_Witness ==
  /\ GraphGetResolved(FALSE)
  /\ Get(call.outcome.value.data, "value") = Arr(<<Items.b, Items.c>>)
  /\ Get(call.outcome.value.data, "@odata.nextLink") = GraphNextLink
  /\ hasMorePages(call.outcome.value.data, "graph")

----------------------------------------------------------------------------
(* The requests of callAzureApi.                                           *)

\* C13: in a fetchAll aggregation every page request carries the token
\* its own acquisition returned, the acquisition is issued before the
\* request, and a call that fetched n pages made n + 1 acquisitions.
C13_FreshTokenPerPage ==
  Aggregating =>
    /\ call.nHttp > 0 => call.lastRequest.token = call.lastToken
    /\ call.pc = "az:pageToken" => call.nToken = call.nHttp + 2
    /\ call.pc \in {"az:pageFetch", "az:pageText"} => call.nToken = call.nHttp + 1
    /\ (call.pc = "done" /\ IsSuccess(call.outcome)) =>
          /\ call.nHttp = Len(call.pages)
          /\ call.nToken = Len(call.pages) + 1

\* Two pages fetched with three acquisitions; the second page went out
\* with a token that is not the one acquired at call start.
C13_Witness ==
  /\ AggregationDone
  /\ IsSuccess(call.outcome)
  /\ Len(call.pages) = 2
  /\ call.nToken = 3
  /\ call.lastRequest.token = call.lastToken
  /\ call.lastRequest.token # call.token

\* C14: an aggregation has at most one page request in flight: every
\* request but the latest has been answered before the next is issued,
\* the first goes to the URL the call built and each later one to the
\* nextLink of the page received just before it.
C14_PagesInSequence ==
  Aggregating =>
    /\ call.nHttp \in {Len(call.pages), Len(call.pages) + 1}
    /\ call.pc \in {"az:pageFetch", "az:pageText"} =>
          call.nHttp = Len(call.pages) + 1
    /\ call.pc = "az:pageToken" => call.nHttp = Len(call.pages)
    /\ call.nHttp = 1 => call.lastRequest.url = call.url
    /\ call.nHttp > 1 =>
          /\ Ok(call.pages[call.nHttp - 1].status)
          /\ HasNextLink(call.pages[call.nHttp - 1].data)
          /\ call.lastRequest.url = Get(call.pages[call.nHttp - 1].data, "nextLink").s

\* The second page request is in flight, to the nextLink of the first.
C14_Witness ==
  /\ Aggregating
  /\ call.pc = "az:pageFetch"
  /\ call.nHttp = 2
  /\ Len(call.pages) = 1
  /\ Get(call.pages[1].data, "nextLink") = Str(NextPageUrl)
  /\ call.lastRequest.url = NextPageUrl

\* Whether the query string of url has an api-version parameter.
HasApiVersion(url) ==
  \E i \in 2..(Len(url) - 2) :
    /\ url[i - 1] \in {"?", "&"}
    /\ url[i] = "api-version"
    /\ url[i + 1] = "="
    /\ url[i + 2] # ""

\* C16 as claimed: every request callAzureApi sends, follow-up page
\* requests included, goes to a URL with an api-version parameter.
C16_EveryRequestHasApiVersion ==
  (call.api = "azure" /\ call.nHttp > 0) => HasApiVersion(call.lastRequest.url)

\* C16 as amended: the first request goes to the built URL, whose query
\* string starts with api-version set to the given version; a follow-up
\* page request goes to the previous page's nextLink as the backend sent
\* it, and has an api-version parameter exactly when that link has one.
C16_BuiltUrlHasApiVersion ==
  (call.api = "azure" /\ call.nHttp > 0) =>
    /\ HasApiVersion(call.url)
    /\ \E i \in 1..Len(call.url) :
          SubSeq(call.url, i, i + 3) = <<"?", "api-version", "=">> \o call.params.apiVersion
    /\ call.nHttp = 1 => call.lastRequest.url = call.url
    /\ call.nHttp > 1 =>
          LET link == Get(call.pages[call.nHttp - 1].data, "nextLink")
          IN  /\ call.lastRequest.url = link.s
              /\ HasApiVersion(call.lastRequest.url) <=> HasApiVersion(link.s)

\* A second page request sent to a nextLink without api-version.
C16_Witness ==
  /\ Aggregating
  /\ call.nHttp = 2
  /\ HasApiVersion(call.url)
  /\ call.lastRequest.url = NextPageUrl
  /\ ~HasApiVersion(call.lastRequest.url)

----------------------------------------------------------------------------
(* Concurrent invocations.                                                 *)

RECURSIVE Replay(_, _)
\* The frame after its awaits produced the given outcomes, one after
\* the other.
Replay(c, outcomes) ==
  IF outcomes = <<>> THEN c
  ELSE Replay(Resume(c, Head(outcomes)), Tail(outcomes))

\* The invocation run alone on helper h against the given outcomes.
RunAlone(h, api, params, outcomes) == Replay(Enter(h, api, params), outcomes)

\* The outcomes the awaits of one aggregation produced, as the backend
\* gave them: the token of the call start, then for page k a token, the
\* response and the text of its body.
PagesRead(log) == IF log = <<>> THEN 0 ELSE (Len(log) - 1) \div 3

OwnPageToken(log, k) == Get(log[3 * k - 1].v, "token").s

OwnPageStatus(log, k) == log[3 * k].v.status

OwnPageBody(log, k) == log[3 * k + 1].v.json

RECURSIVE OwnItems(_, _)
\* The items of the `value` arrays of the first k pages of the log that
\* came with a 2xx status, in order.
OwnItems(log, k) ==
  IF k = 0 THEN <<>>
  ELSE OwnItems(log, k - 1)
         \o (IF Ok(OwnPageStatus(log, k)) /\ HasValueArray(OwnPageBody(log, k))
             THEN Get(OwnPageBody(log, k), "value").items ELSE <<>>)

\* C15: whatever the interleaving of the concurrent invocations at their
\* awaits, each one is at every moment, its result included, where it
\* would be had it run alone against the outcomes its own awaits
\* produced.  Stated on those outcomes: the accumulator of an aggregation
\* holds the items of its own pages and no others, each page request goes
\* to the URL built from its own arguments or to the nextLink of its own
\* previous page and carries the token its own latest acquisition
\* returned, an aggregation returns the items of its own pages or the
\* failure of its own last page, and a Graph call returns the payload or
\* the failure of its own request.
C15_CallsDoNotInterfere ==
  \A i \in Callers :
    LET c == calls[i]
        log == inputs[i]
        read == PagesRead(log)
    IN  /\ c.pc # "idle" => c = RunAlone(helper, c.api, c.params, log)
        /\ c.api = "azure" =>
              /\ c.allValues = OwnItems(log, read)
              /\ c.nHttp = 1 => c.lastRequest.url = BuildAzureUrl(c.params)
              /\ c.nHttp > 1 =>
                    c.lastRequest.url = Get(OwnPageBody(log, c.nHttp - 1), "nextLink").s
              /\ c.nHttp >= 1 => c.lastRequest.token = OwnPageToken(log, c.nHttp)
              /\ c.pc = "done" =>
                    IF Ok(OwnPageStatus(log, read))
                    THEN c.outcome =
                           Fulfilled(Success(Obj([allValues |-> Arr(OwnItems(log, read))])))
                    ELSE /\ IsFailure(c.outcome)
                         /\ Contains(c.outcome.value.error.s, c.lastRequest.url)
                         /\ Contains(c.outcome.value.error.s,
                                     <<ToString(OwnPageStatus(log, read))>>)
        /\ (c.api = "graph" /\ c.pc = "done") =>
              c.outcome = IF log[1].k = "return"
                          THEN Fulfilled(Success(log[1].v))
                          ELSE Fulfilled(Failure(log[1].v.message, log[1].v.statusCode))

\* One aggregation has returned its own three items while the other,
\* started with another token, is suspended after its first page with
\* the one item of that page accumulated.
C15_Witness ==
  /\ calls["c1"].api = "azure"
  /\ calls["c2"].api = "azure"
  /\ calls["c1"].pc = "done"
  /\ calls["c1"].outcome =
        Fulfilled(Success(Obj([allValues |-> Arr(<<Items.a, Items.b, Items.c>>)])))
  /\ calls["c2"].pc = "az:pageToken"
  /\ calls["c2"].allValues = <<Items.a>>
  /\ calls["c1"].token # calls["c2"].token

----------------------------------------------------------------------------
(* The server process: token injection and startup.                        *)

\* The held manager is in ClientProvidedToken mode.
ClientTokenMode == GetAuthMode(authManager) = Str(<<"ClientProvidedToken">>)

\* C17: a set-access-token handled while no auth manager is held, or
\* while the held one is not in ClientProvidedToken mode, returns an
\* error result, does not call updateAccessToken, and leaves the auth
\* manager, Graph client and API helper slots as they were.
C17_NoEffectOutsideClientToken ==
  [][ (SetAccessToken /\ ~ClientTokenMode) =>
        /\ \E h \in Handlers :
              /\ tools'[h].name = "set-access-token"
              /\ tools'[h].pc = "done"
              /\ tools'[h].result.isError
        /\ injected' = injected
        /\ authManager' = authManager
        /\ graphClient' = graphClient
        /\ apiHelper' = apiHelper ]_vars

\* The requests of tool `name` that have returned a result.
Returned(name) ==
  { h \in Handlers : tools[h].name = name /\ tools[h].pc = "done" }

\* set-access-token was refused while no auth manager was held (the
\* slot was cleared by an add-graph-permission).
C17_Witness ==
  /\ \E h \in Returned("set-access-token") : tools[h].result.isError
  /\ authManager = Null
  /\ Truthy(apiHelper)
  /\ injected = NoInjection

\* set-access-token was refused in interactive mode.
C17_WitnessOtherMode ==
  /\ \E h \in Returned("set-access-token") : tools[h].result.isError
  /\ GetAuthMode(authManager) = Str(<<"Interactive">>)

\* The server is serving after a start in ClientProvidedToken mode
\* without ACCESS_TOKEN.
StartedWithoutToken ==
  /\ main.pc = "serving"
  /\ main.authMode = "ClientProvidedToken"
  /\ env.ACCESS_TOKEN = ""

\* C18: after a start in ClientProvidedToken mode without a token, as
\* long as no set-access-token has succeeded the API helper slot is null
\* and every call-graph-api invocation has returned an error without a
\* token acquisition or an HTTP request; once one has succeeded the three
\* slots are non-null, the manager is the instance constructed at
\* startup, and the client and the helper are bound to it.
C18_NoServiceBeforeToken ==
  StartedWithoutToken =>
    IF injected.count = 0
    THEN /\ apiHelper = Null
         /\ graphClient = Null
         /\ \A h \in Handlers :
               tools[h].name = "call-graph-api" =>
                 /\ tools[h].pc = "done"
                 /\ tools[h].result.isError
                 /\ tools[h].call.nHttp = 0
                 /\ tools[h].call.nToken = 0
    ELSE /\ Truthy(authManager)
         /\ Truthy(graphClient)
         /\ Truthy(apiHelper)
         /\ authManager.id = 1
         /\ managers = 1
         /\ authManager.accessToken = injected.accessToken
         /\ graphClient = NewClient(authManager.id)
         /\ apiHelper.graphClient = graphClient
         /\ apiHelper.authManager = authManager.id

\* call-graph-api was refused before any token was set.
C18_Witness ==
  /\ StartedWithoutToken
  /\ injected.count = 0
  /\ \E h \in Returned("call-graph-api") :
        /\ tools[h].result.isError
        /\ Get(tools[h].result.json, "error") = Str(<<"API helper not initialized">>)

\* After a set-access-token a call-graph-api invocation was served.
C18_WitnessAfter ==
  /\ StartedWithoutToken
  /\ injected.count = 1
  /\ \E h \in Returned("call-graph-api") :
        /\ ~tools[h].result.isError
        /\ tools[h].call.nHttp = 1

\* The seconds since the epoch of date d, -1 for an Invalid Date.
Seconds(d) == IF d.valid THEN d.day * SecondsPerDay + d.sec ELSE -1

\* The seconds a date text denotes, -1 for text that is no date.
SecondsOf(text) == Seconds(DateOfText(text))

\* The expiry a set-access-token injected, in seconds; -1 when none was
\* given or the text given is no date.
ExpiryOf(injection) ==
  IF injection.expiresOn.t = "string" THEN SecondsOf(injection.expiresOn.s) ELSE -1

\* C19: get-auth-status asked after a set-access-token reports
\* isExpired = (query time > expiry) for the expiry that was injected,
\* and isExpired = false when none was given (or the text given is no
\* date).  The query time is the time of the call of getTokenStatus();
\* the timestamp of the result is read after the await and is not
\* earlier.
C19_ExpiryAtQueryTime ==
  \A h \in Returned("get-auth-status") :
    tools[h].asked.injected.count > 0 =>
      LET status == Get(tools[h].result.json, "tokenStatus")
          expiry == ExpiryOf(tools[h].asked.injected)
          stamped == SecondsOf(Get(tools[h].result.json, "timestamp").s)
      IN  /\ Get(status, "isExpired") = Bool(expiry >= 0 /\ tools[h].asked.at > expiry)
          /\ stamped >= tools[h].asked.at

\* A token injected with the expiry of second 1 is reported expired when
\* asked at second 2.
C19_Witness ==
  \E h \in Returned("get-auth-status") :
    /\ tools[h].asked.injected.expiresOn = Str(IsoAt(1))
    /\ tools[h].asked.at = 2
    /\ Get(Get(tools[h].result.json, "tokenStatus"), "isExpired") = Bool(TRUE)

\* The same token is reported not expired when asked at second 1, also
\* when the handler is resumed a second later.
C19_WitnessNotYet ==
  \E h \in Returned("get-auth-status") :
    /\ tools[h].asked.injected.expiresOn = Str(IsoAt(1))
    /\ tools[h].asked.at = 1
    /\ Get(tools[h].result.json, "timestamp") = Str(IsoAt(2))
    /\ Get(Get(tools[h].result.json, "tokenStatus"), "isExpired") = Bool(FALSE)

\* A token injected with the epoch as its expiry, written "1\fJan 1970",
\* is reported expired when asked at second 1.
C19_WitnessLegacyForm ==
  \E h \in Returned("get-auth-status") :
    /\ tools[h].asked.injected.expiresOn = Str(<<"1\fJan 1970">>)
    /\ tools[h].asked.at = 1
    /\ Get(Get(tools[h].result.json, "tokenStatus"), "isExpired") = Bool(TRUE)
    /\ Get(Get(tools[h].result.json, "tokenStatus"), "expiresOn") = Str(IsoAt(0))

\* C20: main() run with an environment that lacks a field the selected
\* mode requires has failed, and the auth manager, Graph client and API
\* helper slots are all null.
C20_MissingFieldFailsClean ==
  (main.pc # "start" /\ MissingRequired(AuthConfigOf(env, SelectAuthMode(env)))) =>
    /\ main.pc = "failed"
    /\ main.error.t = "error"
    /\ authManager = Null
    /\ graphClient = Null
    /\ apiHelper = Null

\* Certificate mode with tenant and client but no certificate path.
C20_Witness ==
  /\ main.pc = "failed"
  /\ main.authMode = "Certificate"
  /\ env.TENANT_ID # ""
  /\ env.CLIENT_ID # ""
  /\ env.CERTIFICATE_PATH = ""
  /\ authManager = Null
  /\ graphClient = Null
  /\ apiHelper = Null

----------------------------------------------------------------------------
(* Methods other than get, and responses without content.                  *)

\* The frame is a call of a dispatch method with a method other than get.
OtherMethod ==
  /\ call.api \in {"azure", "graph"}
  /\ call.params.method # "get"

\* C21: a callGraphApi or callAzureApi with a method other than get never
\* enters the page loop, whatever fetchAll says: it acquires at most one
\* token and issues at most one HTTP request, exactly one once it has
\* reached its dispatch, and a success returns what that one response
\* carried (the parsed body; the payload of the SDK request, or the
\* substitute of a delete without content), never an { allValues } object.
C21_OtherMethodsSingleRoundTrip ==
  OtherMethod =>
    /\ call.nHttp <= 1
    /\ call.nToken <= 1
    /\ call.pc \notin {"az:pageToken", "az:pageFetch", "az:pageText"}
    /\ call.pc \in {"az:fetch", "az:text", "graph:request"} => call.nHttp = 1
    /\ (call.pc = "done" /\ IsSuccess(call.outcome)) =>
          /\ call.nHttp = 1
          /\ Len(call.pages) = 1
          /\ Get(call.outcome.value.data, "allValues") = Undefined
          /\ call.outcome.value.data =
                IF call.api = "azure" THEN ParseBody(call.pages[1].body)
                ELSE IF call.params.method = "delete" /\ Nullish(call.pages[1].data)
                THEN Obj([status |-> Str(<<"Success (No Content)">>)])
                ELSE call.pages[1].data

\* A callAzureApi post with fetchAll answered with a page that names a
\* successor: the page is returned as it came, after one request.
C21_Witness ==
  /\ call.api = "azure"
  /\ call.params.method = "post"
  /\ call.params.fetchAll
  /\ call.pc = "done"
  /\ IsSuccess(call.outcome)
  /\ call.nHttp = 1
  /\ Get(call.outcome.value.data, "nextLink") = Str(NextPageUrl)
  /\ Get(call.outcome.value.data, "value") = Arr(<<Items.a>>)

\* The same for callGraphApi: a post with fetchAll whose payload carries
\* a cursor.
C21_WitnessGraph ==
  /\ call.api = "graph"
  /\ call.params.method = "post"
  /\ call.params.fetchAll
  /\ call.pc = "done"
  /\ call.nHttp = 1
  /\ Get(call.outcome.value.data, "@odata.nextLink") = GraphNextLink

\* The frame is a finished delete whose one request was answered.
DeleteAnswered(api) ==
  /\ call.api = api
  /\ call.params.method = "delete"
  /\ call.pc = "done"
  /\ Len(call.pages) = 1

\* C22: a delete answered without content returns a success whose data
\* is a substitute object and whose error is not set: for callGraphApi,
\* when request.delete() resolved with undefined or null, the object
\* { status: "Success (No Content)" }; for callAzureApi, when the
\* response is 2xx with an empty body, the empty object.
C22_DeleteWithoutContentSubstituted ==
  /\ (DeleteAnswered("graph") /\ Nullish(call.pages[1].data)) =>
        /\ call.outcome = Fulfilled(Success(Obj([status |-> Str(<<"Success (No Content)">>)])))
        /\ ~Nullish(call.outcome.value.data)
        /\ call.outcome.value.error = Undefined
  /\ ( /\ DeleteAnswered("azure")
       /\ Ok(call.pages[1].status)
       /\ Len(call.pages[1].body.text) = 0 ) =>
        /\ call.outcome = Fulfilled(Success(EmptyObj))
        /\ ~Nullish(call.outcome.value.data)
        /\ call.outcome.value.error = Undefined

\* A callGraphApi delete whose request resolved with undefined.
C22_Witness ==
  /\ DeleteAnswered("graph")
  /\ call.pages[1].data = Undefined
  /\ Get(call.outcome.value.data, "status") = Str(<<"Success (No Content)">>)

\* A callAzureApi delete answered 204 without a body.
C22_WitnessAzure ==
  /\ DeleteAnswered("azure")
  /\ call.pages[1].status = 204
  /\ call.pages[1].body = EmptyBody
  /\ call.outcome = Fulfilled(Success(EmptyObj))

----------------------------------------------------------------------------
(* Failures of the resource-management backend.                            *)

\* The latest response callAzureApi received has a non-2xx status.
BackendRefused ==
  /\ call.api = "azure"
  /\ call.pages # <<>>
  /\ ~Ok(call.pages[Len(call.pages)].status)

\* C23: when the resource-management backend answers with a non-2xx
\* status, callAzureApi returns a failure whose message contains the
\* status and the body (parsed, or wrapped as raw text), and whose
\* statusCode field is that status.
C23_BackendErrorSurfaced ==
  BackendRefused =>
    LET page == call.pages[Len(call.pages)]
    IN  /\ call.pc = "done"
        /\ IsFailure(call.outcome)
        /\ Contains(call.outcome.value.error.s, <<ToString(page.status)>>)
        /\ Contains(call.outcome.value.error.s, Stringify(page.data))
        /\ call.outcome.value.statusCode = page.status

\* The part of C23 the code keeps: the failure's message contains the
\* status and the body; the statusCode field is not set.
C23_MessageNamesStatusAndBody ==
  BackendRefused =>
    LET page == call.pages[Len(call.pages)]
    IN  /\ call.pc = "done"
        /\ IsFailure(call.outcome)
        /\ Contains(call.outcome.value.error.s, <<ToString(page.status)>>)
        /\ Contains(call.outcome.value.error.s, Stringify(page.data))
        /\ page.data = ParseBody(page.body)
        /\ call.outcome.value.statusCode = 0

\* A single round trip answered 404 with text that is not JSON.
C23_MessageWitness ==
  /\ BackendRefused
  /\ ~(call.params.fetchAll /\ call.params.method = "get")
  /\ call.pages[1].status = 404
  /\ call.pages[1].data = Obj([rawResponse |-> Str(InvalidBody.text)])
  /\ call.outcome.value.error =
        Str(<<"API error (", "404", ") for Azure RM: ">>
              \o Stringify(Obj([rawResponse |-> Str(InvalidBody.text)])))

----------------------------------------------------------------------------
(* The server process: call-graph-api.                                     *)

\* Request h is a call-graph-api for the resource-management backend
\* without apiVersion.
AzureWithoutVersion(h) ==
  /\ tools[h].name = "call-graph-api"
  /\ tools[h].args.apiType = "azure"
  /\ tools[h].args.apiVersion = <<>>

\* C24: a call-graph-api for the resource-management backend without
\* apiVersion has returned an error result without a dispatch: no frame
\* of callAzureApi exists, no token was acquired and no HTTP request was
\* sent.  With an API helper held the error is the one of line 95.
C24_AzureNeedsApiVersion ==
  \A h \in Handlers :
    AzureWithoutVersion(h) =>
      /\ tools[h].pc = "done"
      /\ tools[h].result.isError
      /\ tools[h].call = IdleFrame
      /\ tools[h].call.nToken = 0
      /\ tools[h].call.nHttp = 0
      /\ Get(tools[h].result.json, "error") =
            IF Truthy(apiHelper)
            THEN Str(<<"API version is required for Azure Resource Management queries">>)
            ELSE Str(<<"API helper not initialized">>)

\* The request was refused by a server that holds an API helper.
C24_Witness ==
  \E h \in Handlers :
    /\ AzureWithoutVersion(h)
    /\ Truthy(apiHelper)
    /\ tools[h].pc = "done"
    /\ tools[h].result.isError
    /\ Get(tools[h].result.json, "error") =
          Str(<<"API version is required for Azure Resource Management queries">>)
    /\ tools[h].call.nHttp = 0

----------------------------------------------------------------------------
(* The server process: the session slots.                                  *)

\* A held API helper comes with a held auth manager and Graph client,
\* and is the helper constructed from them.
SlotsConsistent ==
  Truthy(apiHelper) =>
    /\ Truthy(authManager)
    /\ Truthy(graphClient)
    /\ apiHelper = NewGraphApiHelper(graphClient, authManager,
                                     useGraphBeta, defaultGraphApiVersion)

\* C25: in every state of the server, between the awaited steps of an
\* add-graph-permission included, a non-null API helper implies a
\* non-null auth manager and Graph client, and the helper is the one
\* constructed from the manager and client currently held.
C25_SlotsConsistent == main.pc = "serving" => SlotsConsistent

\* The part of C25 the code keeps: the slots are consistent as long as
\* no add-graph-permission is suspended and none has failed to get a
\* token.
C25_ConsistentOutsideReauth ==
  (main.pc = "serving" /\ ~SlotsConsistent) =>
    /\ main.authMode = "Interactive"
    /\ authManager = Null
    /\ graphClient = Null
    /\ \/ \E h \in Handlers : tools[h].pc \in {"agp:browser", "agp:device"}
       \/ injected.count = 0 /\ managers >= 1

\* The slots after startup with client credentials: all three held.
C25_ConsistentWitness ==
  /\ main.pc = "serving"
  /\ main.authMode = "ClientCredentials"
  /\ Truthy(apiHelper)
  /\ SlotsConsistent

\* The slots hold a manager, a client bound to it and a helper built
\* from both, none of them the one request t found.
ReplacedSince(t) ==
  /\ Truthy(authManager)
  /\ authManager # t.before.authManager
  /\ graphClient = NewClient(authManager.id)
  /\ graphClient # t.before.graphClient
  /\ apiHelper = NewGraphApiHelper(graphClient, authManager,
                                   useGraphBeta, defaultGraphApiVersion)
  /\ apiHelper # t.before.apiHelper

\* C26: an add-graph-permission that returned an error leaves the auth
\* manager, Graph client and API helper that were held before the call;
\* one that succeeded has replaced all three by a new manager, a new
\* client bound to it and a new helper built from both.
C26_ReplacedAllOrNothing ==
  \A h \in Returned("add-graph-permission") :
    IF tools[h].result.isError
    THEN Slots = tools[h].before
    ELSE ReplacedSince(tools[h])

\* The handler returned an error before it touched the slots: the mode
\* or the scopes were refused.
RefusedBeforeReauth(t) ==
  \/ Contains(t.result.text, <<"Error: add-graph-permission tool is only available in interactive authentication mode. Current mode: ">>)
  \/ t.result.text = <<"Error: At least one permission scope must be specified.">>
  \/ Contains(t.result.text, <<"Error: Invalid scope format detected: ">>)

\* The part of C26 the code keeps: a refusal of the mode or of the scopes
\* leaves the three slots as they were and a success replaces all three;
\* a failed token acquisition leaves the manager and client slots null
\* and the helper slot as it was.
C26_RefusalKeepsSuccessReplaces ==
  \A h \in Returned("add-graph-permission") :
    IF tools[h].result.isError
    THEN IF RefusedBeforeReauth(tools[h])
         THEN Slots = tools[h].before
         ELSE /\ authManager = Null
              /\ graphClient = Null
              /\ apiHelper = tools[h].before.apiHelper
    ELSE ReplacedSince(tools[h])

\* An add-graph-permission succeeded on a server that held a session.
C26_SuccessWitness ==
  \E h \in Returned("add-graph-permission") :
    /\ ~tools[h].result.isError
    /\ Truthy(tools[h].before.authManager)
    /\ authManager.id = 2
    /\ apiHelper.authManager = 2

----------------------------------------------------------------------------
(* The server process: the mode selected at startup.                       *)

\* C27: once main() has run, either more than one of USE_CLIENT_TOKEN,
\* USE_INTERACTIVE and USE_CERTIFICATE is 'true' and main() has failed
\* without constructing an auth manager, or the mode is the one the
\* environment determines: ClientProvidedToken exactly with
\* USE_CLIENT_TOKEN, Certificate exactly with USE_CERTIFICATE,
\* ClientCredentials exactly with no switch and TENANT_ID, CLIENT_ID and
\* CLIENT_SECRET all set, and Interactive otherwise; the manager
\* constructed at startup has that mode.
C27_OneModeOrFailure ==
  main.pc # "start" =>
    LET ct == env.USE_CLIENT_TOKEN = "true"
        it == env.USE_INTERACTIVE = "true"
        ce == env.USE_CERTIFICATE = "true"
        creds == env.TENANT_ID # "" /\ env.CLIENT_ID # "" /\ env.CLIENT_SECRET # ""
    IN  IF (ct /\ it) \/ (ct /\ ce) \/ (it /\ ce)
        THEN /\ main.pc = "failed"
             /\ managers = 0
             /\ authManager = Null
             /\ graphClient = Null
             /\ apiHelper = Null
        ELSE /\ main.authMode \in AuthModes
             /\ main.authMode = "ClientProvidedToken" <=> ct
             /\ main.authMode = "Certificate" <=> ce
             /\ main.authMode = "ClientCredentials" <=> (~ct /\ ~it /\ ~ce /\ creds)
             /\ main.authMode = "Interactive" <=> (it \/ (~ct /\ ~ce /\ ~creds))
             /\ (Truthy(authManager) /\ authManager.id = 1) =>
                   GetAuthMode(authManager) = Str(<<main.authMode>>)

\* Two mode switches on: main() failed and no manager was constructed.
C27_Witness ==
  /\ main.pc = "failed"
  /\ env.USE_CLIENT_TOKEN = "true"
  /\ env.USE_CERTIFICATE = "true"
  /\ managers = 0
  /\ authManager = Null

\* No switch and no client secret: the server runs in Interactive mode.
C27_WitnessDefault ==
  /\ main.pc = "serving"
  /\ env.USE_INTERACTIVE = ""
  /\ env.TENANT_ID # ""
  /\ env.CLIENT_ID # ""
  /\ env.CLIENT_SECRET = ""
  /\ main.authMode = "Interactive"

\* No switch and all three credential fields: ClientCredentials.
C27_WitnessCredentials ==
  /\ main.pc = "serving"
  /\ main.authMode = "ClientCredentials"
  /\ GetAuthMode(authManager) = Str(<<"ClientCredentials">>)

\* One switch on together with all three credential fields: the switch
\* decides, here for Certificate mode with its certificate path.
C27_WitnessSwitchOverCredentials ==
  /\ main.pc = "serving"
  /\ env.USE_CERTIFICATE = "true"
  /\ env.TENANT_ID # ""
  /\ env.CLIENT_ID # ""
  /\ env.CLIENT_SECRET # ""
  /\ main.authMode = "Certificate"
  /\ GetAuthMode(authManager) = Str(<<"Certificate">>)

----------------------------------------------------------------------------
(* The tokens of callAzureApi.                                             *)

\* The call returned the failure the method raises when an acquisition
\* yields no token: at call start (line 196), before a page (line 240).
FailedFor(message) ==
  /\ call.pc = "done"
  /\ call.outcome = Fulfilled(Failure(message, 0))

\* C28: every HTTP request of callAzureApi is issued after a token
\* acquisition of the same call and carries the non-empty token the
\* latest acquisition returned; when the acquisition at call start yields
\* no token the call has failed without any request, and when the
\* acquisition before a page yields none the call has failed with every
\* earlier request answered and none issued for that page.
C28_NoRequestWithoutToken ==
  call.api = "azure" =>
    /\ call.nHttp > 0 =>
          /\ call.nToken >= call.nHttp
          /\ call.lastRequest.token \in { <<tk>> : tk \in Tokens }
          /\ call.lastRequest.token = call.lastToken
    /\ FailedFor(<<"Failed to acquire Azure access token">>) =>
          /\ call.nToken = 1
          /\ call.nHttp = 0
    /\ FailedFor(<<"Failed to acquire Azure access token during pagination">>) =>
          /\ call.nHttp = Len(call.pages)
          /\ call.nToken = call.nHttp + 2
          /\ \A i \in 1..Len(call.pages) : Ok(call.pages[i].status)

\* The acquisition before the second page returned an empty token: the
\* call failed after one request.
C28_Witness ==
  /\ call.api = "azure"
  /\ FailedFor(<<"Failed to acquire Azure access token during pagination">>)
  /\ call.nHttp = 1
  /\ call.nToken = 3
  /\ Len(call.pages) = 1

\* The acquisition at call start returned nothing: no request.
C28_WitnessStart ==
  /\ call.api = "azure"
  /\ FailedFor(<<"Failed to acquire Azure access token">>)
  /\ call.nHttp = 0

----------------------------------------------------------------------------
(* The server process: what call-graph-api says about further pages.       *)

\* The call-graph-api requests that returned a result.
CallGraphApiServed ==
  { h \in Returned("call-graph-api") : ~tools[h].result.isError }

\* C29: the data of a successful Graph get with fetchAll has the keys
\* '@odata.context' and 'value' and no others, so hasMorePages(data,
\* 'graph') is false, also when the first page carried a cursor; and the
\* text of a call-graph-api result ends with the note on further results
\* exactly when fetchAll is false, the method is get and hasMorePages is
\* true of the data.
C29_FetchAllHidesCursor ==
  \A h \in CallGraphApiServed :
    LET args == tools[h].args
        data == tools[h].result.json
    IN  /\ data = tools[h].call.outcome.value.data
        /\ (args.apiType = "graph" /\ args.method = "get" /\ args.fetchAll) =>
              /\ data.t = "object"
              /\ DOMAIN data.p = {"@odata.context", "value"}
              /\ ~hasMorePages(data, "graph")
        /\ Contains(tools[h].result.text, MoreResultsNote)
              <=> ( /\ ~args.fetchAll
                    /\ args.method = "get"
                    /\ hasMorePages(data, args.apiType) )

\* A Graph get with fetchAll whose first page carried a cursor: the data
\* has none and the result has no note.
C29_Witness ==
  \E h \in CallGraphApiServed :
    /\ tools[h].args.apiType = "graph"
    /\ tools[h].args.fetchAll
    /\ Get(tools[h].call.pages[1].data, "@odata.nextLink") = GraphNextLink
    /\ Get(tools[h].result.json, "@odata.nextLink") = Undefined
    /\ Get(tools[h].result.json, "value") = Arr(<<Items.b, Items.c>>)
    /\ ~Contains(tools[h].result.text, MoreResultsNote)

\* The same page asked without fetchAll: the result has the note.
C29_WitnessNote ==
  \E h \in CallGraphApiServed :
    /\ tools[h].args.apiType = "graph"
    /\ ~tools[h].args.fetchAll
    /\ Get(tools[h].result.json, "@odata.nextLink") = GraphNextLink
    /\ Contains(tools[h].result.text, MoreResultsNote)

\* A delete answered with a page that names a successor: no note.
C29_WitnessDelete ==
  \E h \in CallGraphApiServed :
    /\ tools[h].args.method = "delete"
    /\ hasMorePages(tools[h].result.json, "azure")
    /\ ~Contains(tools[h].result.text, MoreResultsNote)

----------------------------------------------------------------------------
(* Pages without a `value` array.                                          *)

RECURSIVE ClaimedAggregate(_, _)
\* What pages i, i+1, ... add to the aggregate: the items of a page with
\* a `value` array; the payload itself for the first page when it has no
\* `value` array and no nextLink; nothing for any other page.
ClaimedAggregate(pages, i) ==
  IF i > Len(pages) THEN <<>>
  ELSE (IF HasValueArray(pages[i].data) THEN Get(pages[i].data, "value").items
        ELSE IF i = 1 /\ ~HasNextLink(pages[i].data) THEN <<pages[i].data>>
        ELSE <<>>)
         \o ClaimedAggregate(pages, i + 1)

\* The frame is an aggregation whose responses so far were all 2xx.
AggregatingOk ==
  /\ Aggregating
  /\ \A i \in 1..Len(call.pages) : Ok(call.pages[i].status)

\* C30: in an aggregation whose pages are all 2xx, a page without a
\* `value` array does not end the call: when it names a successor the
\* token for the next page is asked for, and when the last page names
\* none the call returns success with the aggregate made of the pages'
\* `value` arrays, plus the payload of the first page when it has no
\* `value` array and no nextLink.
C30_OnlyValueArraysAggregated ==
  AggregatingOk =>
    /\ \A i \in 1..Len(call.pages) :
          (~HasValueArray(call.pages[i].data) /\ HasNextLink(call.pages[i].data)) =>
             call.nToken >= i + 2
    /\ (call.pc = "done" /\ call.pages # <<>>
          /\ ~HasNextLink(call.pages[Len(call.pages)].data)) =>
          call.outcome =
            Fulfilled(Success(Obj([allValues |-> Arr(ClaimedAggregate(call.pages, 1))])))

\* The URL page i was requested at.
RequestedAt(pages, i, url) ==
  IF i = 1 THEN url ELSE Get(pages[i - 1].data, "nextLink").s

RECURSIVE FetchedAggregate(_, _, _)
\* ClaimedAggregate with "the first page" read as the code reads it: a
\* page requested at the URL the call started from.
FetchedAggregate(pages, i, url) ==
  IF i > Len(pages) THEN <<>>
  ELSE (IF HasValueArray(pages[i].data) THEN Get(pages[i].data, "value").items
        ELSE IF RequestedAt(pages, i, url) = url /\ ~HasNextLink(pages[i].data)
        THEN <<pages[i].data>>
        ELSE <<>>)
         \o FetchedAggregate(pages, i + 1, url)

\* The part of C30 the code keeps: the same, for pages whose payload is
\* not the JSON literal null, with the payload of a page without `value`
\* array and nextLink taken as an item whenever the page was requested at
\* the starting URL.
C30_ObjectPagesAggregated ==
  (AggregatingOk /\ \A i \in 1..Len(call.pages) : ~Nullish(call.pages[i].data)) =>
    /\ \A i \in 1..Len(call.pages) :
          (~HasValueArray(call.pages[i].data) /\ HasNextLink(call.pages[i].data)) =>
             call.nToken >= i + 2
    /\ (call.pc = "done" /\ call.pages # <<>>
          /\ ~HasNextLink(call.pages[Len(call.pages)].data)) =>
          call.outcome =
            Fulfilled(Success(Obj([allValues |->
                                     Arr(FetchedAggregate(call.pages, 1, call.url))])))

\* A second page without `value` array that names a successor: the third
\* page is fetched and the call returns the items of the first and third.
C30_ObjectPagesWitness ==
  /\ AggregationDone
  /\ Len(call.pages) = 3
  /\ Get(call.pages[1].data, "value") = Arr(<<Items.a>>)
  /\ ~HasValueArray(call.pages[2].data)
  /\ Get(call.pages[2].data, "value") = Undefined
  /\ HasNextLink(call.pages[2].data)
  /\ Get(call.pages[3].data, "value") = Arr(<<Items.b, Items.c>>)
  /\ call.outcome = Fulfilled(Success(Obj([allValues |-> Arr(<<Items.a, Items.b, Items.c>>)])))

====
